---- MODULE Spec2Model ----
(***************************************************************************)
(* A model of the PostgreSQL/TimescaleDB vs MongoDB benchmark scripts:     *)
(* the batch insertion helper (insert_rows / insert_docs), the storage     *)
(* size helpers, the benchmark mains (aggregation, driver overhead,        *)
(* insertion) and the CSV result stores they append to.                    *)
(*                                                                         *)
(* Three specifications share the variables:                               *)
(*   SpecInsert  the insertion helper's loop, one iteration per step;      *)
(*   SpecSize    the size helpers applied to the figures an engine reports;*)
(*   Spec        benchmark invocations run one after the other against a   *)
(*               file system of result stores.                             *)
(***************************************************************************)
EXTENDS Integers, Sequences, FiniteSets, TLC

VARIABLES
    loop,       \* insert_rows / insert_docs: its locals and its position
    sz,         \* the size helper: what the engine reported, what it returned
    kind,       \* which benchmark script runs: "aggregate", "driver" or "insert"
    warmup_runs,\* WARMUP_RUNS of the script
    n_runs,     \* N_RUNS of the script
    engine,     \* the engine of the running script: "postgres" or "mongo"
    pc,         \* where main() of the running script is
    i,          \* the warm-up loop's counter
    run_id,     \* the measured loop's counter
    latencies,  \* main's list of observations (ms, in ticks of 1/10000 ms)
    stats,      \* main's mean and standard deviation, once computed
    conn,       \* the engine connection: "none", "open" or "closed"
    err,        \* the exception that left main(), as the words of its message; <<>> when none
    files,      \* the result stores: path -> [exists, lines]
    clock,      \* the wall clock read by datetime.now()
    inv,        \* the engines of the invocations started so far, in order
    calls,      \* history: the operation's executions in this invocation
    src,        \* history: for each observation, the execution it timed
    files0,     \* history: the result stores when this invocation started
    cfg,        \* insertion script: WARMUP_ROWS, TOTAL_ROWS, BATCH_SIZE, and whether
                \* sensor_frames is a TimescaleDB hypertable
    db,         \* the engine's dataset: rows this connection sees, rows durable
    runs,       \* insertion script: run_durations, run_throughputs, run_db_sizes_after,
                \* run_table_sizes_after
    it,         \* insertion script: the locals of the measured run under way
    trace,      \* history: what main() did in this invocation, in order
    ag,         \* the latency loops and the statistics step on a scripted operation
    rep         \* the reporting script and the sink on their own: the stores they
                \* read and write, and where stat_summary.main is

helperVars == <<loop, sz, ag, rep>>

insVars == <<db, runs, it>>

mainVars == <<kind, warmup_runs, n_runs, engine, pc, i, run_id, latencies, stats,
              conn, err, files, clock, inv, calls, src, files0, cfg, db, runs, it,
              trace>>

vars == <<loop, sz, kind, warmup_runs, n_runs, engine, pc, i, run_id, latencies,
          stats, conn, err, files, clock, inv, calls, src, files0, cfg, db, runs, it,
          trace, ag, rep>>

(***************************************************************************)
(* Bounds of the model.                                                    *)
(***************************************************************************)
MaxRows == 7
MaxBatch == 4
MaxBytes == 2
MaxWarmup == 2
MaxRuns == 2
MaxInvocations == 2

(***************************************************************************)
(* insert_rows (insert_postgre.py) and insert_docs (insert_mongodb.py).    *)
(* The two helpers are the same loop; the batch is modelled by the number  *)
(* of tuples it holds (every tuple carries the same payload) and an engine *)
(* batch call (execute_batch / insert_many) by the size of the batch it    *)
(* is handed, appended to `issued`.                                        *)
(***************************************************************************)

\* The locals after `t0 = ...; batch = []; inserted = 0`.
InsertStart(total_rows, batch_size) ==
    [pc |-> "loop", total_rows |-> total_rows, batch_size |-> batch_size,
     inserted |-> 0, batch |-> 0, issued |-> <<>>]

\* A loop condition that counts the tuples still in the batch.
InsertLoopCond_countsPending(st) == st.inserted + st.batch < st.total_rows

\* The loop condition `while inserted < total_rows`.
InsertLoopCond(st) == st.inserted < st.total_rows

\* A loop body that adds batch_size, not len(batch), to inserted.
InsertLoopBody_addsBatchSize(st) ==
    LET n == st.batch + 1
    IN  IF n >= st.batch_size
        THEN [st EXCEPT !.inserted = st.inserted + st.batch_size, !.batch = 0,
                        !.issued = Append(st.issued, n)]
        ELSE [st EXCEPT !.batch = n]

\* One iteration of the loop body: batch.append(...), then, when
\* len(batch) >= batch_size, the engine batch call, inserted += len(batch)
\* and batch.clear().
InsertLoopBody(st) ==
    LET n == st.batch + 1
    IN  IF n >= st.batch_size
        THEN [st EXCEPT !.inserted = st.inserted + n, !.batch = 0,
                        !.issued = Append(st.issued, n)]
        ELSE [st EXCEPT !.batch = n]

\* After the loop: `if batch:` flushes what is left, then the helper returns
\* (inserted, duration).
InsertLoopExit(st) ==
    IF st.batch # 0
    THEN [st EXCEPT !.pc = "done", !.inserted = st.inserted + st.batch,
                    !.issued = Append(st.issued, st.batch), !.batch = 0]
    ELSE [st EXCEPT !.pc = "done"]

\* The whole helper, run to its return.
RECURSIVE InsertRun(_)
InsertRun(st) ==
    IF InsertLoopCond(st) THEN InsertRun(InsertLoopBody(st)) ELSE InsertLoopExit(st)

\* insert_rows(cur, frame_bytes, total_rows, batch_size) as a function.
insert_rows(total_rows, batch_size) == InsertRun(InsertStart(total_rows, batch_size))

\* The spec's end-to-end scenario: count=2500, batch_size=1000.
ScenarioInput == <<2500, 1000>>

\* The arguments the helper is run with: small integers of either sign, and
\* the scenario.
InsertInputs == (((-1)..MaxRows) \X ((-1)..MaxBatch)) \cup {ScenarioInput}

(***************************************************************************)
(* The result stores.  A store is a CSV file: absent, or a sequence of     *)
(* lines, each line the sequence of its cells as text.                     *)
(***************************************************************************)

Engines == {"postgres", "mongo"}

Kinds == {"aggregate", "driver", "insert"}

\* One per-run store for both engines.
RUN_CSV_PATH_shared(k, e) ==
    IF k = "aggregate" THEN "results_aggregate_runs.csv"
    ELSE IF k = "insert" THEN "results_insert_runs.csv"
    ELSE ""

\* RUN_CSV_PATH of the script of kind k for engine e ("" when the script
\* keeps no per-run store).
RUN_CSV_PATH(k, e) ==
    IF k = "aggregate"
    THEN (IF e = "postgres" THEN "results_postgres_aggregate_runs.csv"
                            ELSE "results_mongo_aggregate_runs.csv")
    ELSE IF k = "insert"
    THEN (IF e = "postgres" THEN "results_postgres_insert_runs.csv"
                            ELSE "results_mongo_insert_runs.csv")
    ELSE ""

\* SUMMARY_CSV_PATH of the script of kind k for engine e.
SUMMARY_CSV_PATH(k, e) ==
    IF k = "aggregate"
    THEN (IF e = "postgres" THEN "results_postgres_aggregate_summary.csv"
                            ELSE "results_mongo_aggregate_summary.csv")
    ELSE IF k = "insert"
    THEN (IF e = "postgres" THEN "results_postgres_insert_summary.csv"
                            ELSE "results_mongo_insert_summary.csv")
    ELSE (IF e = "postgres" THEN "results_postgres_driver_summary.csv"
                            ELSE "results_mongo_driver_summary.csv")

\* ENGINE_NAME of the script of kind k for engine e.
ENGINE_NAME(k, e) ==
    IF k = "driver"
    THEN (IF e = "postgres" THEN "postgres+psycopg2-driver" ELSE "mongodb+pymongo-driver")
    ELSE (IF e = "postgres" THEN "postgres+timescaledb" ELSE "mongodb_timeseries")

\* QUERY_ID of the script of kind k for engine e.
QUERY_ID(k, e) ==
    IF k = "driver"
    THEN (IF e = "postgres" THEN "Q_driver_roundtrip_select_1" ELSE "Q_driver_roundtrip_ping")
    ELSE "Q_time_bucket_1min_count_avg_size"

Paths ==
    {RUN_CSV_PATH(k, e) : k \in {"aggregate", "insert"}, e \in Engines}
        \cup {SUMMARY_CSV_PATH(k, e) : k \in {"aggregate", "insert", "driver"}, e \in Engines}

NoFile == [exists |-> FALSE, lines |-> <<>>]

\* The insertion parameters of a script that inserts nothing.
NoCfg == [warmup_rows |-> 0, total_rows |-> 0, batch_size |-> 0, hypertable |-> FALSE]

\* An empty dataset.
EmptyDb == [rows |-> 0, committed |-> 0]

\* `run_durations = []; run_throughputs = []; run_db_sizes_after = [];
\* run_table_sizes_after = []`.
NoRuns == [durations |-> <<>>, throughputs |-> <<>>, db_sizes_after |-> <<>>,
           table_sizes_after |-> <<>>]

ZeroSnapshot ==
    [table_total_bytes |-> 0, table_data_bytes |-> 0, table_index_bytes |-> 0,
     db_bytes |-> 0]

\* The locals of a measured insertion run before any is assigned.
NoIt == [sizes_before |-> ZeroSnapshot, rows_inserted |-> 0,
         duration |-> [num |-> 0, den |-> 1], sizes_after |-> ZeroSnapshot,
         rows_in_table_after |-> 0]

\* The state of the variables of main() while no script runs.
MainIdle ==
    /\ kind = "none"
    /\ warmup_runs = 0
    /\ n_runs = 0
    /\ engine = "none"
    /\ pc = "idle"
    /\ i = 0
    /\ run_id = 0
    /\ latencies = <<>>
    /\ stats = <<>>
    /\ conn = "none"
    /\ err = <<>>
    /\ files = [p \in Paths |-> NoFile]
    /\ clock = 0
    /\ inv = <<>>
    /\ calls = <<>>
    /\ src = <<>>
    /\ files0 = [p \in Paths |-> NoFile]
    /\ cfg = NoCfg
    /\ db = EmptyDb
    /\ runs = NoRuns
    /\ it = NoIt
    /\ trace = <<>>

LoopIdle == [pc |-> "idle"]

SizeIdle == [pc |-> "idle"]

AgIdle == [pc |-> "idle"]

RepIdle == [pc |-> "idle"]

InsertInit ==
    /\ loop \in {InsertStart(a[1], a[2]) : a \in InsertInputs}
    /\ sz = SizeIdle
    /\ ag = AgIdle
    /\ rep = RepIdle
    /\ MainIdle

InsertIter ==
    /\ loop.pc = "loop"
    /\ InsertLoopCond(loop)
    /\ loop' = InsertLoopBody(loop)
    /\ UNCHANGED <<sz, ag, rep>>
    /\ UNCHANGED mainVars

InsertReturn ==
    /\ loop.pc = "loop"
    /\ ~InsertLoopCond(loop)
    /\ loop' = InsertLoopExit(loop)
    /\ UNCHANGED <<sz, ag, rep>>
    /\ UNCHANGED mainVars

InsertNext == InsertIter \/ InsertReturn

SpecInsert == InsertInit /\ [][InsertNext]_vars

\* The helper is sequential code: as long as every engine batch call
\* returns, the step it is at is eventually taken.
SpecInsertFair == InsertInit /\ [][InsertNext]_vars /\ WF_vars(InsertNext)

\* Sum of a sequence of batch sizes.
RECURSIVE SumSeq(_)
SumSeq(s) == IF s = <<>> THEN 0 ELSE Head(s) + SumSeq(Tail(s))

\* floor(count/batch_size) batches of batch_size, then count mod batch_size
\* when that is positive.
RECURSIVE FullBatches(_, _)
FullBatches(k, b) == IF k <= 0 THEN <<>> ELSE <<b>> \o FullBatches(k - 1, b)

Partition(count, b) ==
    FullBatches(count \div b, b) \o (IF count % b > 0 THEN <<count % b>> ELSE <<>>)

\* C1: for count >= 0 and batch_size >= 1 the helper inserts exactly `count`
\* records and returns inserted = count, also when count is not a multiple of
\* batch_size.
C1_InsertsExactlyCount ==
    (loop.pc = "done" /\ loop.total_rows >= 0 /\ loop.batch_size >= 1)
        => /\ loop.inserted = loop.total_rows
           /\ SumSeq(loop.issued) = loop.total_rows

\* C2: the batches issued are floor(count/batch_size) batches of batch_size
\* followed by one batch of count mod batch_size when that is positive; for
\* count=2500, batch_size=1000 they are 1000, 1000, 500 and 2500 is returned.
C2_PartitionIntoBatches ==
    (loop.pc = "done" /\ loop.total_rows >= 0 /\ loop.batch_size >= 1)
        => /\ loop.issued = Partition(loop.total_rows, loop.batch_size)
           /\ (<<loop.total_rows, loop.batch_size>> = ScenarioInput
                 => loop.issued = <<1000, 1000, 500>> /\ loop.inserted = 2500)
(***************************************************************************)
(* The size helpers.  A value fetched from SQL is <<>> for NULL and <<v>>  *)
(* for the integer v; a MongoDB stats document is a function from the keys *)
(* it carries to their values.                                             *)
(***************************************************************************)

NULL == <<>>

\* Python's `x or 0` on a fetched value: None and 0 both give 0.
OrZero(v) == IF v = NULL THEN 0 ELSE IF v[1] = 0 THEN 0 ELSE v[1]

\* SQL COALESCE(x, 0).
Coalesce0(v) == IF v = NULL THEN 0 ELSE v[1]

\* What PostgreSQL reports for a plain relation whose heap, indexes and TOAST
\* (with the other auxiliary forks) take rel.heap, rel.idx and rel.toast bytes:
\* pg_total_relation_size is "total (data+index+toast)", pg_relation_size is
\* "table data only", pg_indexes_size is "indexes only".
PgTotalRelationSize(rel) == <<rel.heap + rel.idx + rel.toast>>
PgRelationSize(rel) == <<rel.heap>>
PgIndexesSize(rel) == <<rel.idx>>

\* The hypertable branch with the split invented instead of zeroed.
HypertableBranch_halfIndex(ht_total) ==
    LET table_total_bytes == OrZero(ht_total)
    IN  [table_total_bytes |-> table_total_bytes,
         table_data_bytes |-> table_total_bytes \div 2,
         table_index_bytes |-> table_total_bytes - (table_total_bytes \div 2)]

\* get_table_and_db_sizes, hypertable branch: hypertable_size() gives one
\* BIGINT; all of it is taken as data and the index bytes are set to 0.
HypertableBranch(ht_total) ==
    LET table_total_bytes == OrZero(ht_total)
    IN  [table_total_bytes |-> table_total_bytes,
         table_data_bytes |-> table_total_bytes,
         table_index_bytes |-> 0]

\* get_table_and_db_sizes, plain table branch: the three relation size
\* functions, each under COALESCE(., 0), returned as fetched.
PlainBranch(rel) ==
    [table_total_bytes |-> Coalesce0(PgTotalRelationSize(rel)),
     table_data_bytes |-> Coalesce0(PgRelationSize(rel)),
     table_index_bytes |-> Coalesce0(PgIndexesSize(rel))]

\* Which branch get_table_and_db_sizes takes: is_hypertable starts False and
\* is only fetched when the timescaledb extension is installed.
IsHypertablePath(has_ts, catalog_has_table) ==
    LET is_hypertable == IF has_ts THEN catalog_has_table ELSE FALSE
    IN  has_ts /\ is_hypertable

\* get_table_and_db_sizes(cur).
get_table_and_db_sizes(has_ts, catalog_has_table, ht_total, rel, db_size) ==
    LET t == IF IsHypertablePath(has_ts, catalog_has_table)
             THEN HypertableBranch(ht_total)
             ELSE PlainBranch(rel)
    IN  [table_total_bytes |-> t.table_total_bytes,
         table_data_bytes |-> t.table_data_bytes,
         table_index_bytes |-> t.table_index_bytes,
         db_bytes |-> db_size]

\* Python's dict.get(key, default).
DictGet(d, key, default) == IF key \in DOMAIN d THEN d[key] ELSE default

\* The collection figures with the indexes left out of the total.
CollectionFigures_totalIsStorage(collstats) ==
    LET coll_storage_bytes == DictGet(collstats, "storageSize", DictGet(collstats, "size", 0))
        coll_index_bytes == DictGet(collstats, "totalIndexSize", 0)
    IN  [table_total_bytes |-> coll_storage_bytes,
         table_data_bytes |-> coll_storage_bytes,
         table_index_bytes |-> coll_index_bytes]

\* get_collection_and_db_sizes, collection level: storageSize (else size,
\* else 0), totalIndexSize (else 0), and their sum as the total.
CollectionFigures(collstats) ==
    LET coll_storage_bytes == DictGet(collstats, "storageSize", DictGet(collstats, "size", 0))
        coll_index_bytes == DictGet(collstats, "totalIndexSize", 0)
        coll_total_bytes == coll_storage_bytes + coll_index_bytes
    IN  [table_total_bytes |-> coll_total_bytes,
         table_data_bytes |-> coll_storage_bytes,
         table_index_bytes |-> coll_index_bytes]

\* get_collection_and_db_sizes(db, coll_name).
get_collection_and_db_sizes(dbstats, collstats) ==
    LET c == CollectionFigures(collstats)
        db_storage_bytes == DictGet(dbstats, "storageSize", DictGet(dbstats, "dataSize", 0))
        db_index_bytes == DictGet(dbstats, "indexSize", 0)
        db_total_bytes == db_storage_bytes + db_index_bytes
    IN  [table_total_bytes |-> c.table_total_bytes,
         table_data_bytes |-> c.table_data_bytes,
         table_index_bytes |-> c.table_index_bytes,
         db_bytes |-> db_total_bytes]

Bytes == 0..MaxBytes

\* The plain relations PostgreSQL may report on.
Relations == [heap : Bytes, idx : Bytes, toast : Bytes]

\* The stats documents MongoDB may return over the keys the helper reads.
StatsDocs(keys) == UNION {[K -> Bytes] : K \in SUBSET keys}

CollStatsKeys == {"storageSize", "size", "totalIndexSize"}

DbStatsKeys == {"storageSize", "dataSize", "indexSize"}

SizeInit ==
    /\ sz = SizeIdle
    /\ loop = LoopIdle
    /\ ag = AgIdle
    /\ rep = RepIdle
    /\ MainIdle

\* One call of the relational helper on what the engine reports.
SizePostgres ==
    /\ sz.pc = "idle"
    /\ \E has_ts \in BOOLEAN, catalog_has_table \in BOOLEAN,
          ht_total \in {NULL} \cup {<<b>> : b \in Bytes},
          rel \in Relations, db_size \in Bytes :
            sz' = [pc |-> "returned",
                   path |-> IF IsHypertablePath(has_ts, catalog_has_table)
                            THEN "hypertable" ELSE "plain",
                   split |-> ~IsHypertablePath(has_ts, catalog_has_table),
                   null_total |-> (IsHypertablePath(has_ts, catalog_has_table)
                                     /\ ht_total = NULL),
                   aux |-> IF IsHypertablePath(has_ts, catalog_has_table)
                           THEN 0 ELSE rel.toast,
                   snap |-> get_table_and_db_sizes(has_ts, catalog_has_table,
                                                   ht_total, rel, db_size)]
    /\ UNCHANGED <<loop, ag, rep>>
    /\ UNCHANGED mainVars

\* One call of the document helper on what the engine reports.
SizeMongo ==
    /\ sz.pc = "idle"
    /\ \E dbstats \in StatsDocs(DbStatsKeys), collstats \in StatsDocs(CollStatsKeys) :
            sz' = [pc |-> "returned",
                   path |-> "document",
                   split |-> "totalIndexSize" \in DOMAIN collstats,
                   null_total |-> FALSE,
                   aux |-> 0,
                   snap |-> get_collection_and_db_sizes(dbstats, collstats)]
    /\ UNCHANGED <<loop, ag, rep>>
    /\ UNCHANGED mainVars

SizeNext == SizePostgres \/ SizeMongo

SpecSize == SizeInit /\ [][SizeNext]_vars

\* C9 as stated: every snapshot has table_total_bytes >= table_data_bytes,
\* and on the plain relational path and the document path
\* table_total_bytes = table_data_bytes + table_index_bytes.
C9_SplitSumsToTotal ==
    sz.pc = "returned"
        => /\ sz.snap.table_total_bytes >= sz.snap.table_data_bytes
           /\ (sz.path \in {"plain", "document"}
                 => sz.snap.table_total_bytes
                      = sz.snap.table_data_bytes + sz.snap.table_index_bytes)

\* C9 amended: every snapshot has table_total_bytes >= table_data_bytes; on
\* the document path (and the hypertable path) the total is exactly data +
\* index; on the plain relational path the total is data + index + the TOAST
\* bytes PostgreSQL counts in pg_total_relation_size, so it is >= data + index
\* and equal only when those are 0.
C9_TotalCoversSplit ==
    sz.pc = "returned"
        => /\ sz.snap.table_total_bytes >= sz.snap.table_data_bytes
           /\ (sz.path \in {"document", "hypertable"}
                 => sz.snap.table_total_bytes
                      = sz.snap.table_data_bytes + sz.snap.table_index_bytes)
           /\ (sz.path = "plain"
                 => sz.snap.table_total_bytes
                      = sz.snap.table_data_bytes + sz.snap.table_index_bytes + sz.aux)

\* C9 witness: a document snapshot with data and index bytes both reported
\* and positive.
C9_Witness ==
    /\ sz.pc = "returned"
    /\ sz.path = "document"
    /\ sz.split
    /\ sz.snap.table_data_bytes > 0
    /\ sz.snap.table_index_bytes > 0

\* C10: when the engine reports only a total (hypertable path, or collection
\* stats without totalIndexSize) the snapshot has table_data_bytes =
\* table_total_bytes and table_index_bytes = 0, and a NULL total gives 0 for
\* all three; the helper returns it as a value.
C10_TotalOnlyDegrades ==
    (sz.pc = "returned" /\ ~sz.split)
        => /\ sz.snap.table_data_bytes = sz.snap.table_total_bytes
           /\ sz.snap.table_index_bytes = 0
           /\ (sz.null_total
                 => /\ sz.snap.table_total_bytes = 0
                    /\ sz.snap.table_data_bytes = 0
                    /\ sz.snap.table_index_bytes = 0)

\* C10 witness: a hypertable snapshot with a positive total.
C10_Witness ==
    /\ sz.pc = "returned"
    /\ sz.path = "hypertable"
    /\ ~sz.split
    /\ sz.snap.table_total_bytes > 0
(***************************************************************************)
(* Numbers.  A float is modelled by the exact rational [num, den] it       *)
(* stands for; a standard deviation, as the square root of a rational, by  *)
(* [rad_num, rad_den, den]: sqrt(rad_num / rad_den) / den.  A rounded      *)
(* value is [units, nd]: units * 10^-nd with no trailing zero decimal, so  *)
(* that equal numbers are written equal whatever they were rounded to.     *)
(***************************************************************************)

RECURSIVE Pow10(_)
Pow10(n) == IF n <= 0 THEN 1 ELSE 10 * Pow10(n - 1)

\* a / b (a >= 0, b > 0) rounded to the nearest integer, ties to even, as
\* Python's round does.
RoundDiv(a, b) ==
    LET q == a \div b
        r == a % b
    IN  IF 2 * r < b THEN q
        ELSE IF 2 * r > b THEN q + 1
        ELSE IF q % 2 = 0 THEN q ELSE q + 1

\* units * 10^-nd without its trailing zero decimals.
RECURSIVE Canon(_, _)
Canon(units, nd) ==
    IF nd > 0 /\ units % 10 = 0 THEN Canon(units \div 10, nd - 1)
    ELSE [units |-> units, nd |-> nd]

\* round(x, nd) for a rational x.
Round(x, nd) == Canon(RoundDiv(x.num * Pow10(nd), x.den), nd)

\* The largest j >= 0 with j * j <= c, for c >= 0, searched in lo..hi-1.
RECURSIVE FloorSqrtIn(_, _, _)
FloorSqrtIn(lo, hi, c) ==
    IF hi - lo <= 1 THEN lo
    ELSE LET mid == (lo + hi) \div 2
         IN  IF mid <= c \div mid THEN FloorSqrtIn(mid, hi, c)
             ELSE FloorSqrtIn(lo, mid, c)

FloorSqrt(c) == FloorSqrtIn(0, c + 1, c)

RECURSIVE GCD(_, _)
GCD(a, b) == IF b = 0 THEN a ELSE GCD(b, a % b)

LCM(a, b) == (a \div GCD(a, b)) * b

\* round(x, nd) for a standard deviation x = sqrt(rad_num / rad_den) / den.
RoundStd(x, nd) ==
    LET p == Pow10(nd)
        g == GCD(p, x.den)
        \* 2 * x * 10^nd = sqrt(c), rounded down to an integer
        c == (4 * x.rad_num * (p \div g) * (p \div g))
                \div (x.rad_den * (x.den \div g) * (x.den \div g))
    IN  Canon(IF x.rad_num = 0 THEN 0 ELSE (FloorSqrt(c) + 1) \div 2, nd)

\* The least common denominator of a list of rationals.
RECURSIVE CommonDen(_)
CommonDen(xs) == IF xs = <<>> THEN 1 ELSE LCM(Head(xs).den, CommonDen(Tail(xs)))

\* The numerators of a list of rationals over the denominator D.
Numerators(xs, D) == [k \in 1..Len(xs) |-> xs[k].num * (D \div xs[k].den)]

RECURSIVE SumOf(_)
SumOf(ns) == IF ns = <<>> THEN 0 ELSE Head(ns) + SumOf(Tail(ns))

RECURSIVE SumSqOf(_)
SumSqOf(ns) == IF ns = <<>> THEN 0 ELSE Head(ns) * Head(ns) + SumSqOf(Tail(ns))

\* statistics.mean(xs) for a non-empty list.
Mean(xs) ==
    LET D == CommonDen(xs)
    IN  [num |-> SumOf(Numerators(xs, D)), den |-> D * Len(xs)]

\* The population standard deviation (divisor n).
Stdev_population(xs) ==
    LET n == Len(xs)
        D == CommonDen(xs)
        ns == Numerators(xs, D)
    IN  [rad_num |-> n * SumSqOf(ns) - SumOf(ns) * SumOf(ns),
         rad_den |-> n * n,
         den |-> D]

\* statistics.stdev(xs), the sample standard deviation (divisor n - 1), for
\* a list of at least two values.
Stdev(xs) ==
    LET n == Len(xs)
        D == CommonDen(xs)
        ns == Numerators(xs, D)
    IN  [rad_num |-> n * SumSqOf(ns) - SumOf(ns) * SumOf(ns),
         rad_den |-> n * (n - 1),
         den |-> D]

\* The float 0.0 as a standard deviation.
ZeroStd == [rad_num |-> 0, rad_den |-> 1, den |-> 1]

\* The guard taken at `len(xs) > 2`.
StdevOrZero_guardAtTwo(xs) == IF Len(xs) > 2 THEN Stdev(xs) ELSE ZeroStd

\* `statistics.stdev(xs) if len(xs) > 1 else 0.0`.
StdevOrZero(xs) == IF Len(xs) > 1 THEN Stdev(xs) ELSE ZeroStd

\* An observation rounded to the per-run store's 3 decimals when it is taken.
LatencyMs_roundedWhenTaken(d) ==
    LET r == Round([num |-> d, den |-> 10000], 3)
    IN  [num |-> r.units, den |-> Pow10(r.nd)]

\* latency_ms = (t1 - t0) * 1000.0, for perf_counter readings d ticks of
\* 1/10000 ms apart.
LatencyMs(d) == [num |-> d, den |-> 10000]

\* The time a query or ping may take, in ticks of 1/10000 ms.
Durations == {14, 15}

\* duration = t1 - t0 in seconds, for perf_counter readings d ticks of
\* 1/10000 s apart.
DurationSec(d) == [num |-> d, den |-> 10000]

\* The time an insertion run may take, in ticks of 1/10000 s.
InsertDurations == {625, 2500}

\* `rows_inserted / duration if duration > 0 else 0.0`.
RowsPerSec(rows_inserted, duration) ==
    IF duration.num > 0
    THEN LET g == GCD(rows_inserted * duration.den, duration.num)
         IN  [num |-> (rows_inserted * duration.den) \div g,
              den |-> duration.num \div g]
    ELSE [num |-> 0, den |-> 1]

\* bytes_to_mb(b) = b / (1024 * 1024).
bytes_to_mb(b) == [num |-> b, den |-> 1024 * 1024]

(***************************************************************************)
(* The latency loops and the statistics step of main(), run on an          *)
(* operation whose executions take scripted times.                         *)
(***************************************************************************)

\* The most measured executions of a script.
MaxObs == 3

\* The latencies, in ms, a measured execution may have.
ObsValues == {[num |-> 10, den |-> 1], [num |-> 11, den |-> 1], [num |-> 21, den |-> 2]}

\* The time, in ms, every warm-up execution takes.
WarmLatency == [num |-> 99, den |-> 1]

\* Measured latencies 10, 12, 11, 9, 13 ms.
ScenarioLatencies ==
    <<[num |-> 10, den |-> 1], [num |-> 12, den |-> 1], [num |-> 11, den |-> 1],
      [num |-> 9, den |-> 1], [num |-> 13, den |-> 1]>>

\* The sequences of at most n values of S.
RECURSIVE SeqsUpTo(_, _)
SeqsUpTo(S, n) ==
    IF n = 0 THEN {<<>>}
    ELSE LET shorter == SeqsUpTo(S, n - 1)
         IN  shorter \cup {Append(q, v) : q \in {r \in shorter : Len(r) = n - 1}, v \in S}

\* The measured latencies of the scripts.
ObsScripts == SeqsUpTo(ObsValues, MaxObs) \cup {ScenarioLatencies}

\* The time execution number k of the operation takes when the script
\* starts after w warm-up executions.
OpLatency(w, xs, k) == IF k <= w THEN WarmLatency ELSE xs[k - w]

\* WARMUP_RUNS = w and N_RUNS = Len(xs), main() at its warm-up loop.
AgStart(w, xs) ==
    [pc |-> "warmup", warmup_runs |-> w, n_runs |-> Len(xs), xs |-> xs,
     i |-> 1, run_id |-> 0, execs |-> 0, latencies |-> <<>>,
     mean_latency |-> [num |-> 0, den |-> 1], std_latency |-> ZeroStd, err |-> ""]

StatsInit ==
    /\ ag \in {AgStart(w, xs) : w \in 0..MaxWarmup, xs \in ObsScripts}
    /\ loop = LoopIdle
    /\ sz = SizeIdle
    /\ rep = RepIdle
    /\ MainIdle

\* `for i in range(1, WARMUP_RUNS + 1)`: the operation is executed, nothing
\* is timed or kept.
AgWarmupIter ==
    /\ ag.pc = "warmup"
    /\ ag.i <= ag.warmup_runs
    /\ ag' = [ag EXCEPT !.execs = @ + 1, !.i = @ + 1]
    /\ UNCHANGED <<loop, sz, rep>>
    /\ UNCHANGED mainVars

\* The warm-up loop is over: `latencies = []`.
AgWarmupDone ==
    /\ ag.pc = "warmup"
    /\ ag.i > ag.warmup_runs
    /\ ag' = [ag EXCEPT !.pc = "measure", !.latencies = <<>>, !.run_id = 1]
    /\ UNCHANGED <<loop, sz, rep>>
    /\ UNCHANGED mainVars

\* `for run_id in range(1, N_RUNS + 1)`: t0, the operation, t1,
\* latencies.append((t1 - t0) * 1000.0).
AgMeasureIter ==
    /\ ag.pc = "measure"
    /\ ag.run_id <= ag.n_runs
    /\ LET latency_ms == OpLatency(ag.warmup_runs, ag.xs, ag.execs + 1)
       IN  ag' = [ag EXCEPT !.execs = @ + 1,
                            !.latencies = Append(@, latency_ms),
                            !.run_id = @ + 1]
    /\ UNCHANGED <<loop, sz, rep>>
    /\ UNCHANGED mainVars

\* The measured loop is over: statistics.mean raises StatisticsError on an
\* empty list; otherwise mean_latency and std_latency are computed.
AgStats ==
    /\ ag.pc = "measure"
    /\ ag.run_id > ag.n_runs
    /\ ag' = IF ag.latencies = <<>>
             THEN [ag EXCEPT !.pc = "failed", !.err = "StatisticsError"]
             ELSE [ag EXCEPT !.pc = "done",
                             !.mean_latency = Mean(ag.latencies),
                             !.std_latency = StdevOrZero(ag.latencies)]
    /\ UNCHANGED <<loop, sz, rep>>
    /\ UNCHANGED mainVars

StatsNext == AgWarmupIter \/ AgWarmupDone \/ AgMeasureIter \/ AgStats

SpecStats == StatsInit /\ [][StatsNext]_vars

\* The observations of a list are not all the same value.
HasTwoValues(xs) ==
    \E a, b \in 1..Len(xs) : xs[a].num * xs[b].den # xs[b].num * xs[a].den

C17_ScenarioMeanAndStd ==
    (ag.pc = "done" /\ ag.warmup_runs = 2 /\ ag.xs = ScenarioLatencies) =>
        /\ ag.execs = 7
        /\ ag.latencies = ScenarioLatencies
        /\ ag.mean_latency.num = 11 * ag.mean_latency.den
        /\ 2 * ag.std_latency.rad_num
             = 5 * ag.std_latency.rad_den * ag.std_latency.den * ag.std_latency.den
        /\ RoundStd(ag.std_latency, 2) = [units |-> 158, nd |-> 2]

C17_Witness ==
    /\ ag.pc = "done"
    /\ ag.warmup_runs = 2
    /\ ag.xs = ScenarioLatencies
    /\ ag.execs = 7
    /\ Round(ag.mean_latency, 1) = [units |-> 11, nd |-> 0]


(***************************************************************************)
(* The CSV sink: append_run_to_csv / append_summary_to_csv.                *)
(***************************************************************************)

\* str(value), as csv writes a cell.
Cell(v) == ToString(v)

\* fieldnames of append_run_to_csv of the PostgreSQL script of kind k.
RunFieldnames(k) ==
    IF k = "aggregate"
    THEN <<"timestamp", "engine", "query_id", "run_id", "latency_ms">>
    ELSE <<"timestamp", "run_id", "engine", "total_rows_requested", "rows_inserted",
           "batch_size", "duration_sec", "rows_per_sec", "db_size_before_mb",
           "db_size_after_mb", "table_total_before_mb", "table_total_after_mb",
           "table_data_before_mb", "table_data_after_mb", "table_index_before_mb",
           "table_index_after_mb", "rows_in_table_after">>

\* fieldnames of append_summary_to_csv of the PostgreSQL script of kind k.
SummaryFieldnames(k) ==
    IF k = "insert"
    THEN <<"timestamp", "engine", "warmup_rows", "total_rows_per_run", "batch_size",
           "n_runs", "mean_duration_sec", "std_duration_sec", "mean_rows_per_sec",
           "std_rows_per_sec", "mean_db_size_after_mb", "std_db_size_after_mb",
           "mean_table_total_after_mb", "std_table_total_after_mb">>
    ELSE <<"timestamp", "engine", "query_id", "mean_latency_ms", "std_latency_ms",
           "n_runs">>

\* fieldnames of append_run_to_csv of the MongoDB script of kind k, with
\* run_id and engine in each other's place.
MongoRunFieldnames_reordered(k) ==
    IF k = "aggregate"
    THEN <<"timestamp", "run_id", "query_id", "engine", "latency_ms">>
    ELSE <<"timestamp", "engine", "run_id", "total_rows_requested", "rows_inserted",
           "batch_size", "duration_sec", "rows_per_sec", "db_size_before_mb",
           "db_size_after_mb", "table_total_before_mb", "table_total_after_mb",
           "table_data_before_mb", "table_data_after_mb", "table_index_before_mb",
           "table_index_after_mb", "rows_in_table_after">>

\* fieldnames of append_run_to_csv of the MongoDB script of kind k.
MongoRunFieldnames(k) ==
    IF k = "aggregate"
    THEN <<"timestamp", "engine", "query_id", "run_id", "latency_ms">>
    ELSE <<"timestamp", "run_id", "engine", "total_rows_requested", "rows_inserted",
           "batch_size", "duration_sec", "rows_per_sec", "db_size_before_mb",
           "db_size_after_mb", "table_total_before_mb", "table_total_after_mb",
           "table_data_before_mb", "table_data_after_mb", "table_index_before_mb",
           "table_index_after_mb", "rows_in_table_after">>

\* fieldnames of append_summary_to_csv of the MongoDB script of kind k.
MongoSummaryFieldnames(k) ==
    IF k = "insert"
    THEN <<"timestamp", "engine", "warmup_rows", "total_rows_per_run", "batch_size",
           "n_runs", "mean_duration_sec", "std_duration_sec", "mean_rows_per_sec",
           "std_rows_per_sec", "mean_db_size_after_mb", "std_db_size_after_mb",
           "mean_table_total_after_mb", "std_table_total_after_mb">>
    ELSE <<"timestamp", "engine", "query_id", "mean_latency_ms", "std_latency_ms",
           "n_runs">>

\* fieldnames of append_run_to_csv / append_summary_to_csv of the script of
\* kind k for engine e.
ScriptRunFieldnames(k, e) ==
    IF e = "mongo" THEN MongoRunFieldnames(k) ELSE RunFieldnames(k)

ScriptSummaryFieldnames(k, e) ==
    IF e = "mongo" THEN MongoSummaryFieldnames(k) ELSE SummaryFieldnames(k)

\* DictWriter.writerow(row_dict): the cells of the row in fieldnames order, a
\* missing key written as the empty cell.
WriteRow(fieldnames, row_dict) ==
    [k \in 1..Len(fieldnames) |->
        IF fieldnames[k] \in DOMAIN row_dict THEN Cell(row_dict[fieldnames[k]]) ELSE ""]

\* DictWriter.writeheader(): the row that maps every field name to itself.
WriteHeader(fieldnames) ==
    WriteRow(fieldnames,
             [f \in {fieldnames[k] : k \in 1..Len(fieldnames)} |-> f])

\* An append that reopens the store for writing instead of appending.
CsvAppend_truncating(file, fieldnames, row_dict) ==
    [exists |-> TRUE,
     lines |-> <<WriteHeader(fieldnames), WriteRow(fieldnames, row_dict)>>]

\* An append that writes the header on every call.
CsvAppend_alwaysHeader(file, fieldnames, row_dict) ==
    [exists |-> TRUE,
     lines |-> file.lines \o <<WriteHeader(fieldnames), WriteRow(fieldnames, row_dict)>>]

\* An append that writes the header whenever the store holds no line yet.
CsvAppend_headerWhenEmpty(file, fieldnames, row_dict) ==
    [exists |-> TRUE,
     lines |-> file.lines
                 \o (IF file.lines = <<>> THEN <<WriteHeader(fieldnames)>> ELSE <<>>)
                 \o <<WriteRow(fieldnames, row_dict)>>]

\* The body shared by every append_*_to_csv: file_exists =
\* os.path.exists(path); open(path, "a") creates the file when it is absent
\* and keeps what it holds; the header is written when not file_exists, then
\* the row.
CsvAppend(file, fieldnames, row_dict) ==
    LET file_exists == file.exists
    IN  [exists |-> TRUE,
         lines |-> file.lines
                     \o (IF ~file_exists THEN <<WriteHeader(fieldnames)>> ELSE <<>>)
                     \o <<WriteRow(fieldnames, row_dict)>>]

\* Per-run rows that are kept for later and not written when they are built.
append_run_to_csv_deferred(fs, k, e, row_dict) == fs

\* append_run_to_csv(row_dict) of the script of kind k for engine e.
append_run_to_csv(fs, k, e, row_dict) ==
    [fs EXCEPT ![RUN_CSV_PATH(k, e)] = CsvAppend(@, ScriptRunFieldnames(k, e), row_dict)]

\* append_summary_to_csv(summary_dict) of the script of kind k for engine e.
append_summary_to_csv(fs, k, e, summary_dict) ==
    [fs EXCEPT ![SUMMARY_CSV_PATH(k, e)] = CsvAppend(@, ScriptSummaryFieldnames(k, e), summary_dict)]
(***************************************************************************)
(* main() of the benchmark scripts.  One script kind is run, one           *)
(* invocation after the other, each against the relational or the document *)
(* engine; the result stores outlive the invocations.                      *)
(***************************************************************************)

\* The warm-up loop `for i in range(1, WARMUP_RUNS + 1)` has an iteration left.
WarmupPending_offByOne == i < warmup_runs

WarmupPending == i <= warmup_runs

\* The measured loop `for run_id in range(1, N_RUNS + 1)` has an iteration left.
MeasuredPending_offByOne == run_id < n_runs

MeasuredPending == run_id <= n_runs

\* Where main() is after an exception: nothing in main() catches one, so it
\* leaves main().
RaiseFrom_swallowed(at) == at

\* A missing image is passed over.
RaiseFrom_resumes(at) == IF at = "load" THEN "connect" ELSE "failed"

RaiseFrom(at) == "failed"

\* datetime.now(timezone.utc): the next reading of the wall clock.
Now == clock + 1

\* The decimals the summary's latencies are rounded to.
SummaryDecimals(k) == IF k = "driver" THEN 6 ELSE 3

\* A per-run row numbered from 0.
AggregateRunRow_zeroBased(e, id, latency_ms) ==
    [timestamp |-> Now,
     engine |-> ENGINE_NAME("aggregate", e),
     query_id |-> QUERY_ID("aggregate", e),
     run_id |-> id - 1,
     latency_ms |-> Round(latency_ms, 3)]

\* The per-run row of the aggregation benchmark.
AggregateRunRow(e, id, latency_ms) ==
    [timestamp |-> Now,
     engine |-> ENGINE_NAME("aggregate", e),
     query_id |-> QUERY_ID("aggregate", e),
     run_id |-> id,
     latency_ms |-> Round(latency_ms, 3)]

\* The summary row of the aggregation and driver overhead benchmarks.
LatencySummaryRow(k, e, mean_latency, std_latency) ==
    [timestamp |-> Now,
     engine |-> ENGINE_NAME(k, e),
     query_id |-> QUERY_ID(k, e),
     mean_latency_ms |-> Round(mean_latency, SummaryDecimals(k)),
     std_latency_ms |-> RoundStd(std_latency, SummaryDecimals(k)),
     n_runs |-> n_runs]

(***************************************************************************)
(* The engine as the insertion script sees it.  The dataset is the number  *)
(* of rows of sensor_frames: those this connection sees and those that are *)
(* durable.  What the engine reports on its size is a function of the rows *)
(* the connection sees.                                                    *)
(***************************************************************************)

\* WARMUP_ROWS, TOTAL_ROWS and BATCH_SIZE the script may be configured with,
\* and whether sensor_frames is a hypertable.
InsertConfigs ==
    {[warmup_rows |-> 0, total_rows |-> 2, batch_size |-> 2, hypertable |-> FALSE],
     [warmup_rows |-> 2, total_rows |-> 3, batch_size |-> 2, hypertable |-> TRUE],
     [warmup_rows |-> 2, total_rows |-> 2, batch_size |-> 1, hypertable |-> FALSE]}

\* The dataset the script may find: empty, or left over from earlier work.
Datasets == {[rows |-> r, committed |-> r] : r \in {0, 3}}

\* A clear that removes nothing.
ClearDataset_keepsRows(d) == d

\* cur.execute("TRUNCATE TABLE sensor_frames RESTART IDENTITY;") followed by
\* conn.commit(); coll.delete_many({}).
ClearDataset(d) == [rows |-> 0, committed |-> 0]

\* What main() does to clear the dataset, as it appears in the trace.
ClearEvents(e) == IF e = "postgres" THEN <<"truncate", "commit">> ELSE <<"delete_many">>

\* The dataset after n rows were inserted: PostgreSQL (autocommit off) keeps
\* them in the open transaction, MongoDB acknowledges each insert_many.
InsertInto(d, e, n) ==
    IF e = "postgres"
    THEN [d EXCEPT !.rows = d.rows + n]
    ELSE [rows |-> d.rows + n, committed |-> d.committed + n]

\* conn.commit().
Commit(d) == [d EXCEPT !.committed = d.rows]

\* The sizes PostgreSQL reports for sensor_frames holding n rows.
RelationOf(n) == [heap |-> 600 * n, idx |-> 100 * n, toast |-> 400 * n]

\* The stats documents MongoDB returns for sensor_frames holding n documents.
CollStatsOf(n) == [storageSize |-> 1000 * n, size |-> 900 * n, totalIndexSize |-> 100 * n]

DbStatsOf(n) == [storageSize |-> 2000 + 1000 * n, dataSize |-> 900 * n, indexSize |-> 100 * n]

\* get_table_and_db_sizes(cur) / get_collection_and_db_sizes(db, COLL_NAME) on
\* the dataset d.
SizesOf(e, d) ==
    IF e = "postgres"
    THEN get_table_and_db_sizes(cfg.hypertable, cfg.hypertable, <<1100 * d.rows>>,
                                RelationOf(d.rows), 2000 + 1100 * d.rows)
    ELSE get_collection_and_db_sizes(DbStatsOf(d.rows), CollStatsOf(d.rows))

\* get_row_count(cur) / get_row_count(coll).
get_row_count(d) == d.rows

\* Durations rounded like the sizes.
InsertDecimals_durationLikeSize(f) == IF f = "throughput" THEN 2 ELSE 3

\* The decimals the insertion benchmark rounds a field to at write time:
\* round(duration, 4), round(rows_per_sec, 2), round(bytes_to_mb(...), 3).
InsertDecimals(f) ==
    IF f = "duration" THEN 4
    ELSE IF f = "throughput" THEN 2
    ELSE 3

\* The per-run row of the insertion benchmark.
InsertRunRow(e, id, l) ==
    [timestamp |-> Now,
     run_id |-> id,
     engine |-> ENGINE_NAME("insert", e),
     total_rows_requested |-> cfg.total_rows,
     rows_inserted |-> l.rows_inserted,
     batch_size |-> cfg.batch_size,
     duration_sec |-> Round(l.duration, InsertDecimals("duration")),
     rows_per_sec |-> Round(RowsPerSec(l.rows_inserted, l.duration),
                           InsertDecimals("throughput")),
     db_size_before_mb |-> Round(bytes_to_mb(l.sizes_before.db_bytes), InsertDecimals("size")),
     db_size_after_mb |-> Round(bytes_to_mb(l.sizes_after.db_bytes), InsertDecimals("size")),
     table_total_before_mb |-> Round(bytes_to_mb(l.sizes_before.table_total_bytes), InsertDecimals("size")),
     table_total_after_mb |-> Round(bytes_to_mb(l.sizes_after.table_total_bytes), InsertDecimals("size")),
     table_data_before_mb |-> Round(bytes_to_mb(l.sizes_before.table_data_bytes), InsertDecimals("size")),
     table_data_after_mb |-> Round(bytes_to_mb(l.sizes_after.table_data_bytes), InsertDecimals("size")),
     table_index_before_mb |-> Round(bytes_to_mb(l.sizes_before.table_index_bytes), InsertDecimals("size")),
     table_index_after_mb |-> Round(bytes_to_mb(l.sizes_after.table_index_bytes), InsertDecimals("size")),
     rows_in_table_after |-> l.rows_in_table_after]

\* The summary statistics of the insertion benchmark.
InsertStatistics(r) ==
    [mean_duration |-> Mean(r.durations),
     std_duration |-> StdevOrZero(r.durations),
     mean_throughput |-> Mean(r.throughputs),
     std_throughput |-> StdevOrZero(r.throughputs),
     mean_db_after |-> Mean(r.db_sizes_after),
     std_db_after |-> StdevOrZero(r.db_sizes_after),
     mean_table_after |-> Mean(r.table_sizes_after),
     std_table_after |-> StdevOrZero(r.table_sizes_after)]

\* The summary row of the insertion benchmark.
InsertSummaryRow(e, st) ==
    [timestamp |-> Now,
     engine |-> ENGINE_NAME("insert", e),
     warmup_rows |-> cfg.warmup_rows,
     total_rows_per_run |-> cfg.total_rows,
     batch_size |-> cfg.batch_size,
     n_runs |-> n_runs,
     mean_duration_sec |-> Round(st.mean_duration, InsertDecimals("duration")),
     std_duration_sec |-> RoundStd(st.std_duration, InsertDecimals("duration")),
     mean_rows_per_sec |-> Round(st.mean_throughput, InsertDecimals("throughput")),
     std_rows_per_sec |-> RoundStd(st.std_throughput, InsertDecimals("throughput")),
     mean_db_size_after_mb |-> Round(st.mean_db_after, InsertDecimals("size")),
     std_db_size_after_mb |-> RoundStd(st.std_db_after, InsertDecimals("size")),
     mean_table_total_after_mb |-> Round(st.mean_table_after, InsertDecimals("size")),
     std_table_total_after_mb |-> RoundStd(st.std_table_after, InsertDecimals("size"))]

\* The engine batch calls of one insert_rows call, as they appear in the trace.
BatchEvents(issued) == [k \in 1..Len(issued) |-> "batch"]

\* The clock is read after the insertion loop only.
TimedEvents_startsLate(issued) == BatchEvents(issued) \o <<"t0", "t1">>

\* The helper commits its rows itself, before it reads the end instant.
TimedEvents_commitsInside(issued) ==
    <<"t0">> \o BatchEvents(issued) \o <<"commit", "t1">>

\* One insert_rows / insert_docs call as it appears in the trace: t0 is read
\* first, the batches are issued, t1 is read last.
TimedEvents(issued) == <<"t0">> \o BatchEvents(issued) \o <<"t1">>

MainInit ==
    /\ kind \in Kinds
    /\ warmup_runs \in (IF kind = "insert" THEN {0} ELSE 0..MaxWarmup)
    /\ n_runs \in 0..MaxRuns
    /\ cfg \in (IF kind = "insert" THEN InsertConfigs ELSE {NoCfg})
    /\ db \in (IF kind = "insert" THEN Datasets ELSE {EmptyDb})
    /\ runs = NoRuns
    /\ it = NoIt
    /\ trace = <<>>
    /\ engine = "none"
    /\ pc = "idle"
    /\ i = 0
    /\ run_id = 0
    /\ latencies = <<>>
    /\ stats = <<>>
    /\ conn = "none"
    /\ err = <<>>
    /\ files = [p \in Paths |-> NoFile]
    /\ clock = 0
    /\ inv = <<>>
    /\ calls = <<>>
    /\ src = <<>>
    /\ files0 = [p \in Paths |-> NoFile]
    /\ loop = LoopIdle
    /\ sz = SizeIdle
    /\ ag = AgIdle
    /\ rep = RepIdle

\* The script is started for engine e (`python <kind>_<engine>.py`).
Start(e) ==
    /\ pc \in {"idle", "done"}
    /\ Len(inv) < MaxInvocations
    /\ inv' = Append(inv, e)
    /\ engine' = e
    /\ pc' = IF kind = "insert" THEN "load" ELSE "connect"
    /\ i' = 0
    /\ run_id' = 0
    /\ latencies' = <<>>
    /\ stats' = <<>>
    /\ conn' = "none"
    /\ err' = <<>>
    /\ calls' = <<>>
    /\ src' = <<>>
    /\ files0' = files
    /\ db' = [db EXCEPT !.rows = db.committed]
    /\ runs' = NoRuns
    /\ it' = NoIt
    /\ trace' = <<>>
    /\ UNCHANGED <<kind, warmup_runs, n_runs, files, clock, cfg>>
    /\ UNCHANGED helperVars

\* psycopg2.connect(**DB_CONFIG) / MongoClient(MONGO_URI).
Connect ==
    /\ pc = "connect"
    /\ conn' = "open"
    /\ pc' = IF kind = "insert" THEN "ins_clear" ELSE "warmup"
    /\ i' = 1
    /\ trace' = Append(trace, "connect")
    /\ UNCHANGED <<kind, warmup_runs, n_runs, engine, run_id, latencies, stats, err,
                   files, clock, inv, calls, src, files0>>
    /\ UNCHANGED <<cfg, db, runs, it>>
    /\ UNCHANGED helperVars

\* The connection attempt raises: the engine is unreachable.
ConnectFail ==
    /\ pc = "connect"
    /\ pc' = RaiseFrom("connect")
    /\ err' = <<"connect">>
    /\ UNCHANGED <<kind, warmup_runs, n_runs, engine, i, run_id, latencies, stats,
                   conn, files, clock, inv, calls, src, files0>>
    /\ UNCHANGED <<cfg, db, runs, it, trace>>
    /\ UNCHANGED helperVars

\* One warm-up iteration: the operation is executed and its result dropped.
WarmupIter ==
    /\ pc = "warmup"
    /\ WarmupPending
    /\ calls' = Append(calls, [phase |-> "warmup", ok |-> TRUE])
    /\ i' = i + 1
    /\ UNCHANGED <<kind, warmup_runs, n_runs, engine, pc, run_id, latencies, stats,
                   conn, err, files, clock, inv, src, files0>>
    /\ UNCHANGED <<cfg, db, runs, it, trace>>
    /\ UNCHANGED helperVars

\* The operation raises in a warm-up iteration.
WarmupFail ==
    /\ pc = "warmup"
    /\ WarmupPending
    /\ calls' = Append(calls, [phase |-> "warmup", ok |-> FALSE])
    /\ pc' = RaiseFrom("warmup")
    /\ err' = <<"operation">>
    /\ UNCHANGED <<kind, warmup_runs, n_runs, engine, i, run_id, latencies, stats,
                   conn, files, clock, inv, src, files0>>
    /\ UNCHANGED <<cfg, db, runs, it, trace>>
    /\ UNCHANGED helperVars

\* The warm-up loop is over: `latencies = []` and the measured loop starts.
WarmupDone ==
    /\ pc = "warmup"
    /\ ~WarmupPending
    /\ latencies' = <<>>
    /\ run_id' = 1
    /\ pc' = "measure"
    /\ UNCHANGED <<kind, warmup_runs, n_runs, engine, i, stats, conn, err, files,
                   clock, inv, calls, src, files0>>
    /\ UNCHANGED <<cfg, db, runs, it, trace>>
    /\ UNCHANGED helperVars

\* One measured iteration: t0, the operation, t1, latencies.append(latency_ms)
\* and, in the aggregation benchmark, append_run_to_csv of the rounded row.
MeasureIter ==
    /\ pc = "measure"
    /\ MeasuredPending
    /\ \E d \in Durations :
        LET latency_ms == LatencyMs(d)
        IN  /\ latencies' = Append(latencies, latency_ms)
            /\ IF kind = "aggregate"
               THEN /\ files' = append_run_to_csv(files, kind, engine,
                                    AggregateRunRow(engine, run_id, latency_ms))
                    /\ clock' = Now
               ELSE UNCHANGED <<files, clock>>
    /\ calls' = Append(calls, [phase |-> "measured", ok |-> TRUE])
    /\ src' = Append(src, Len(calls) + 1)
    /\ run_id' = run_id + 1
    /\ UNCHANGED <<kind, warmup_runs, n_runs, engine, pc, i, stats, conn, err, inv,
                   files0>>
    /\ UNCHANGED <<cfg, db, runs, it, trace>>
    /\ UNCHANGED helperVars

\* The operation raises in a measured iteration.
MeasureFail ==
    /\ pc = "measure"
    /\ MeasuredPending
    /\ calls' = Append(calls, [phase |-> "measured", ok |-> FALSE])
    /\ pc' = RaiseFrom("measure")
    /\ err' = <<"operation">>
    /\ UNCHANGED <<kind, warmup_runs, n_runs, engine, i, run_id, latencies, stats,
                   conn, files, clock, inv, src, files0>>
    /\ UNCHANGED <<cfg, db, runs, it, trace>>
    /\ UNCHANGED helperVars

\* The measured loop is over.
MeasureDone ==
    /\ pc = "measure"
    /\ ~MeasuredPending
    /\ pc' = "stats"
    /\ UNCHANGED <<kind, warmup_runs, n_runs, engine, i, run_id, latencies, stats,
                   conn, err, files, clock, inv, calls, src, files0>>
    /\ UNCHANGED <<cfg, db, runs, it, trace>>
    /\ UNCHANGED helperVars

\* The statistics step: statistics.mean raises StatisticsError on an empty
\* list; otherwise the mean and `stdev(...) if len(...) > 1 else 0.0`.
Stats ==
    /\ pc = "stats"
    /\ IF latencies = <<>>
       THEN /\ pc' = RaiseFrom("stats")
            /\ err' = <<"StatisticsError">>
            /\ UNCHANGED stats
       ELSE /\ stats' = [mean |-> Mean(latencies), std |-> StdevOrZero(latencies)]
            /\ pc' = "summary"
            /\ UNCHANGED err
    /\ UNCHANGED <<kind, warmup_runs, n_runs, engine, i, run_id, latencies, conn,
                   files, clock, inv, calls, src, files0>>
    /\ UNCHANGED <<cfg, db, runs, it, trace>>
    /\ UNCHANGED helperVars

\* append_summary_to_csv of the rounded summary row, then the connection is
\* closed and main() returns.
Summary ==
    /\ pc = "summary"
    /\ files' = append_summary_to_csv(files, kind, engine,
                    LatencySummaryRow(kind, engine, stats.mean, stats.std))
    /\ clock' = Now
    /\ conn' = "closed"
    /\ pc' = "done"
    /\ UNCHANGED <<kind, warmup_runs, n_runs, engine, i, run_id, latencies, stats,
                   err, inv, calls, src, files0>>
    /\ UNCHANGED <<cfg, db, runs, it, trace>>
    /\ UNCHANGED helperVars

(***************************************************************************)
(* main() of insert_postgre.py / insert_mongodb.py.                        *)
(***************************************************************************)

\* load_and_prepare_single_image(IMAGE_PATH): the payload is built once.
LoadImage ==
    /\ pc = "load"
    /\ pc' = "connect"
    /\ trace' = Append(trace, "load_image")
    /\ UNCHANGED <<kind, warmup_runs, n_runs, engine, i, run_id, latencies, stats,
                   conn, err, files, clock, inv, calls, src, files0>>
    /\ UNCHANGED <<cfg, db, runs, it>>
    /\ UNCHANGED helperVars

\* The image is missing: FileNotFoundError leaves main().
LoadImageFail ==
    /\ pc = "load"
    /\ pc' = RaiseFrom("load")
    /\ err' = <<"FileNotFoundError">>
    /\ UNCHANGED <<kind, warmup_runs, n_runs, engine, i, run_id, latencies, stats,
                   conn, files, clock, inv, calls, src, files0>>
    /\ UNCHANGED <<cfg, db, runs, it, trace>>
    /\ UNCHANGED helperVars

\* "1) Ensure empty table before everything".
InsClear ==
    /\ pc = "ins_clear"
    /\ db' = ClearDataset(db)
    /\ trace' = trace \o ClearEvents(engine)
    /\ pc' = "ins_warmup"
    /\ UNCHANGED <<kind, warmup_runs, n_runs, engine, i, run_id, latencies, stats,
                   conn, err, files, clock, inv, calls, src, files0>>
    /\ UNCHANGED <<cfg, runs, it>>
    /\ UNCHANGED helperVars

\* "2) Warm-up (not logged to CSV)": when WARMUP_ROWS > 0 the rows are
\* inserted (and committed) and the dataset is cleared again; then the
\* per-run lists are created and the measured loop starts.
InsWarmup ==
    /\ pc = "ins_warmup"
    /\ IF cfg.warmup_rows > 0
       THEN LET r == insert_rows(cfg.warmup_rows, cfg.batch_size)
            IN  /\ calls' = Append(calls, [phase |-> "warmup", ok |-> TRUE])
                /\ db' = ClearDataset(Commit(InsertInto(db, engine, r.inserted)))
                /\ trace' = trace \o TimedEvents(r.issued)
                                  \o (IF engine = "postgres" THEN <<"commit">> ELSE <<>>)
                                  \o ClearEvents(engine)
       ELSE UNCHANGED <<calls, db, trace>>
    /\ runs' = NoRuns
    /\ run_id' = 1
    /\ pc' = "ins_measure"
    /\ UNCHANGED <<kind, warmup_runs, n_runs, engine, i, latencies, stats, conn, err,
                   files, clock, inv, src, files0>>
    /\ UNCHANGED <<cfg, it>>
    /\ UNCHANGED helperVars

\* The warm-up insertion raises after j batches.
InsWarmupFail ==
    /\ pc = "ins_warmup"
    /\ cfg.warmup_rows > 0
    /\ \E j \in 0..(Len(insert_rows(cfg.warmup_rows, cfg.batch_size).issued) - 1) :
        /\ db' = InsertInto(db, engine, j * cfg.batch_size)
        /\ trace' = trace \o <<"t0">> \o [k \in 1..j |-> "batch"]
    /\ calls' = Append(calls, [phase |-> "warmup", ok |-> FALSE])
    /\ pc' = RaiseFrom("ins_warmup")
    /\ err' = <<"operation">>
    /\ UNCHANGED <<kind, warmup_runs, n_runs, engine, i, run_id, latencies, stats,
                   conn, files, clock, inv, src, files0>>
    /\ UNCHANGED <<cfg, runs, it>>
    /\ UNCHANGED helperVars

\* A measured run starts: "Empty table before each run".
InsRunClear ==
    /\ pc = "ins_measure"
    /\ MeasuredPending
    /\ db' = ClearDataset(db)
    /\ trace' = trace \o ClearEvents(engine)
    /\ it' = NoIt
    /\ pc' = "ins_sizes_before"
    /\ UNCHANGED <<kind, warmup_runs, n_runs, engine, i, run_id, latencies, stats,
                   conn, err, files, clock, inv, calls, src, files0>>
    /\ UNCHANGED <<cfg, runs>>
    /\ UNCHANGED helperVars

\* "Measure sizes BEFORE".
InsSizesBefore ==
    /\ pc = "ins_sizes_before"
    /\ it' = [it EXCEPT !.sizes_before = SizesOf(engine, db)]
    /\ trace' = Append(trace, "sizes_before")
    /\ pc' = "ins_insert"
    /\ UNCHANGED <<kind, warmup_runs, n_runs, engine, i, run_id, latencies, stats,
                   conn, err, files, clock, inv, calls, src, files0>>
    /\ UNCHANGED <<cfg, db, runs>>
    /\ UNCHANGED helperVars

\* "Do the inserts": insert_rows / insert_docs runs and returns
\* (rows_inserted, duration), the time from its t0 to its t1.
InsInsert ==
    /\ pc = "ins_insert"
    /\ \E d \in InsertDurations :
        LET r == insert_rows(cfg.total_rows, cfg.batch_size)
        IN  /\ it' = [it EXCEPT !.rows_inserted = r.inserted,
                                !.duration = DurationSec(d)]
            /\ db' = InsertInto(db, engine, r.inserted)
            /\ trace' = trace \o TimedEvents(r.issued)
    /\ calls' = Append(calls, [phase |-> "measured", ok |-> TRUE])
    /\ src' = Append(src, Len(calls) + 1)
    /\ pc' = IF engine = "postgres" THEN "ins_commit" ELSE "ins_sizes_after"
    /\ UNCHANGED <<kind, warmup_runs, n_runs, engine, i, run_id, latencies, stats,
                   conn, err, files, clock, inv, files0>>
    /\ UNCHANGED <<cfg, runs>>
    /\ UNCHANGED helperVars

\* The measured insertion raises after j batches.
InsInsertFail ==
    /\ pc = "ins_insert"
    /\ \E j \in 0..(Len(insert_rows(cfg.total_rows, cfg.batch_size).issued) - 1) :
        /\ db' = InsertInto(db, engine, j * cfg.batch_size)
        /\ trace' = trace \o <<"t0">> \o [k \in 1..j |-> "batch"]
    /\ calls' = Append(calls, [phase |-> "measured", ok |-> FALSE])
    /\ pc' = RaiseFrom("ins_insert")
    /\ err' = <<"operation">>
    /\ UNCHANGED <<kind, warmup_runs, n_runs, engine, i, run_id, latencies, stats,
                   conn, files, clock, inv, src, files0>>
    /\ UNCHANGED <<cfg, runs, it>>
    /\ UNCHANGED helperVars

\* insert_postgre.py: conn.commit() after insert_rows has returned.
InsCommit ==
    /\ pc = "ins_commit"
    /\ db' = Commit(db)
    /\ trace' = Append(trace, "commit")
    /\ pc' = "ins_sizes_after"
    /\ UNCHANGED <<kind, warmup_runs, n_runs, engine, i, run_id, latencies, stats,
                   conn, err, files, clock, inv, calls, src, files0>>
    /\ UNCHANGED <<cfg, runs, it>>
    /\ UNCHANGED helperVars

\* "Measure sizes AFTER" and the row count.
InsSizesAfter ==
    /\ pc = "ins_sizes_after"
    /\ it' = [it EXCEPT !.sizes_after = SizesOf(engine, db),
                        !.rows_in_table_after = get_row_count(db)]
    /\ trace' = trace \o <<"sizes_after", "row_count">>
    /\ pc' = "ins_record"
    /\ UNCHANGED <<kind, warmup_runs, n_runs, engine, i, run_id, latencies, stats,
                   conn, err, files, clock, inv, calls, src, files0>>
    /\ UNCHANGED <<cfg, db, runs>>
    /\ UNCHANGED helperVars

\* "Collect for summary stats", then the rounded per-run row is appended.
InsRecord ==
    /\ pc = "ins_record"
    /\ runs' = [durations |-> Append(runs.durations, it.duration),
                throughputs |-> Append(runs.throughputs,
                                       RowsPerSec(it.rows_inserted, it.duration)),
                db_sizes_after |-> Append(runs.db_sizes_after,
                                          bytes_to_mb(it.sizes_after.db_bytes)),
                table_sizes_after |-> Append(runs.table_sizes_after,
                                             bytes_to_mb(it.sizes_after.table_total_bytes))]
    /\ files' = append_run_to_csv(files, kind, engine, InsertRunRow(engine, run_id, it))
    /\ clock' = Now
    /\ trace' = Append(trace, "append_run")
    /\ run_id' = run_id + 1
    /\ pc' = "ins_measure"
    /\ UNCHANGED <<kind, warmup_runs, n_runs, engine, i, latencies, stats, conn, err,
                   inv, calls, src, files0>>
    /\ UNCHANGED <<cfg, db, it>>
    /\ UNCHANGED helperVars

\* An engine call of main() other than the insertion raises: the clear, a
\* size query, the commit.
InsEngineFail ==
    /\ \/ pc \in {"ins_clear", "ins_sizes_before", "ins_commit", "ins_sizes_after"}
       \/ pc = "ins_measure" /\ MeasuredPending
    /\ pc' = RaiseFrom(pc)
    /\ err' = <<"operation">>
    /\ UNCHANGED <<kind, warmup_runs, n_runs, engine, i, run_id, latencies, stats,
                   conn, files, clock, inv, calls, src, files0>>
    /\ UNCHANGED <<cfg, db, runs, it, trace>>
    /\ UNCHANGED helperVars

\* The measured loop is over: "Close DB connection".
InsClose ==
    /\ pc = "ins_measure"
    /\ ~MeasuredPending
    /\ conn' = "closed"
    /\ trace' = Append(trace, "close")
    /\ pc' = "ins_stats"
    /\ UNCHANGED <<kind, warmup_runs, n_runs, engine, i, run_id, latencies, stats,
                   err, files, clock, inv, calls, src, files0>>
    /\ UNCHANGED <<cfg, db, runs, it>>
    /\ UNCHANGED helperVars

\* "SUMMARY STATISTICS": statistics.mean raises StatisticsError on an empty
\* list.
InsStats ==
    /\ pc = "ins_stats"
    /\ IF runs.durations = <<>>
       THEN /\ pc' = RaiseFrom("ins_stats")
            /\ err' = <<"StatisticsError">>
            /\ UNCHANGED stats
       ELSE /\ stats' = InsertStatistics(runs)
            /\ pc' = "ins_summary"
            /\ UNCHANGED err
    /\ UNCHANGED <<kind, warmup_runs, n_runs, engine, i, run_id, latencies, conn,
                   files, clock, inv, calls, src, files0>>
    /\ UNCHANGED <<cfg, db, runs, it, trace>>
    /\ UNCHANGED helperVars

\* The rounded summary row is appended and main() returns.
InsSummary ==
    /\ pc = "ins_summary"
    /\ files' = append_summary_to_csv(files, kind, engine, InsertSummaryRow(engine, stats))
    /\ clock' = Now
    /\ trace' = Append(trace, "append_summary")
    /\ pc' = "done"
    /\ UNCHANGED <<kind, warmup_runs, n_runs, engine, i, run_id, latencies, stats,
                   conn, err, inv, calls, src, files0>>
    /\ UNCHANGED <<cfg, db, runs, it>>
    /\ UNCHANGED helperVars

Next ==
    \/ \E e \in Engines : Start(e)
    \/ Connect
    \/ ConnectFail
    \/ WarmupIter
    \/ WarmupFail
    \/ WarmupDone
    \/ MeasureIter
    \/ MeasureFail
    \/ MeasureDone
    \/ Stats
    \/ Summary
    \/ LoadImage
    \/ LoadImageFail
    \/ InsClear
    \/ InsWarmup
    \/ InsWarmupFail
    \/ InsRunClear
    \/ InsSizesBefore
    \/ InsInsert
    \/ InsInsertFail
    \/ InsCommit
    \/ InsSizesAfter
    \/ InsRecord
    \/ InsEngineFail
    \/ InsClose
    \/ InsStats
    \/ InsSummary

Spec == MainInit /\ [][Next]_vars

(***************************************************************************)
(* The reporting script stat_summary.py, and the two loaders it shares     *)
(* with boxplot.py.  The loaders read a store as text and turn cells into  *)
(* floats, so in a store that is read a value cell is the sequence of its  *)
(* characters (a field name of the header line is kept whole).             *)
(***************************************************************************)

\* "FILE PATHS": the path constants of stat_summary.py.
FILE_PATHS ==
    [POSTGRES_INSERT_RUNS |-> "results_postgres_insert_runs.csv",
     MONGO_INSERT_RUNS |-> "results_mongo_insert_runs.csv",
     POSTGRES_AGG_RUNS |-> "results_postgres_aggregate_runs.csv",
     MONGO_AGG_RUNS |-> "results_mongo_aggregate_runs.csv",
     POSTGRES_DRIVER_SUMMARY |-> "results_postgres_driver_summary.csv",
     MONGO_DRIVER_SUMMARY |-> "results_mongo_driver_summary.csv",
     POSTGRES_INSERT_SUMMARY |-> "results_postgres_insert_summary.csv",
     MONGO_INSERT_SUMMARY |-> "results_mongo_insert_summary.csv",
     FINAL_STATS_CSV |-> "final_stats_summary.csv"]

\* The stores stat_summary.main reads.
ReportPaths ==
    {FILE_PATHS[c] : c \in DOMAIN FILE_PATHS \ {"FINAL_STATS_CSV"}}

\* Every store of the benchmark.
AllPaths == Paths \cup ReportPaths \cup {FILE_PATHS.FINAL_STATS_CSV}

\* The header line the benchmark scripts write to store p.
ReportFieldnames(p) ==
    IF p \in {FILE_PATHS.POSTGRES_INSERT_RUNS, FILE_PATHS.MONGO_INSERT_RUNS}
    THEN RunFieldnames("insert")
    ELSE IF p \in {FILE_PATHS.POSTGRES_AGG_RUNS, FILE_PATHS.MONGO_AGG_RUNS}
    THEN RunFieldnames("aggregate")
    ELSE IF p \in {FILE_PATHS.POSTGRES_DRIVER_SUMMARY, FILE_PATHS.MONGO_DRIVER_SUMMARY}
    THEN SummaryFieldnames("driver")
    ELSE SummaryFieldnames("insert")

\* The most data rows of a store that is read.
MaxStoreRows == 2

DigitChars == <<"0", "1", "2", "3", "4", "5", "6", "7", "8", "9">>

IsDigit(c) == \E k \in 1..Len(DigitChars) : DigitChars[k] = c

\* str(n) of an int n >= 0.
RECURSIVE IntText(_)
IntText(n) ==
    IF n < 10 THEN <<DigitChars[n + 1]>>
    ELSE IntText(n \div 10) \o <<DigitChars[(n % 10) + 1]>>

\* The w decimal digits of n, from the left.
RECURSIVE FracText(_, _)
FracText(n, w) ==
    IF w = 0 THEN <<>> ELSE FracText(n \div 10, w - 1) \o <<DigitChars[(n % 10) + 1]>>

\* str(round(x, nd)) as csv writes a float cell, for the rounded value
\* r = r.units * 10^-r.nd >= 0: the integer part, the point and the
\* decimals, "0" when there is none.
FloatText(r) ==
    IntText(r.units \div Pow10(r.nd))
        \o <<".">>
        \o (IF r.nd = 0 THEN <<"0">> ELSE FracText(r.units % Pow10(r.nd), r.nd))

\* float(text) accepts the text (digits, at most one point, an optional
\* leading minus sign); on any other text it raises ValueError.
IsFloatText(t) ==
    LET body == IF t # <<>> /\ t[1] = "-" THEN Tail(t) ELSE t
    IN  /\ \E k \in 1..Len(body) : IsDigit(body[k])
        /\ \A k \in 1..Len(body) : IsDigit(body[k]) \/ body[k] = "."
        /\ Cardinality({k \in 1..Len(body) : body[k] = "."}) <= 1

\* int(digits) of a text of digits.
RECURSIVE DigitsValue(_)
DigitsValue(t) ==
    IF t = <<>> THEN 0
    ELSE 10 * DigitsValue(SubSeq(t, 1, Len(t) - 1))
           + (CHOOSE k \in 1..Len(DigitChars) : DigitChars[k] = t[Len(t)]) - 1

\* float(text) of an accepted text.
float(t) ==
    LET neg == t # <<>> /\ t[1] = "-"
        body == IF neg THEN Tail(t) ELSE t
        dots == {k \in 1..Len(body) : body[k] = "."}
        decimals == IF dots = {} THEN 0 ELSE Len(body) - (CHOOSE k \in dots : TRUE)
        n == DigitsValue(SelectSeq(body, IsDigit))
    IN  [num |-> IF neg THEN 0 - n ELSE n, den |-> Pow10(decimals)]

\* The value the benchmark scripts wrote in field f of data row j of a store:
\* a throughput or latency of j.5, a mean latency of j.25 with standard
\* deviation 0.j, a table size of j.125 MB in a database of 1j.5 MB.
WrittenValue(f, j) ==
    IF f \in {"rows_per_sec", "latency_ms"} THEN [units |-> 10 * j + 5, nd |-> 1]
    ELSE IF f = "mean_latency_ms" THEN [units |-> 100 * j + 25, nd |-> 2]
    ELSE IF f = "std_latency_ms" THEN [units |-> j, nd |-> 1]
    ELSE IF f = "mean_table_total_after_mb" THEN [units |-> 1000 * j + 125, nd |-> 3]
    ELSE IF f = "mean_db_size_after_mb" THEN [units |-> 10 * (10 + j) + 5, nd |-> 1]
    ELSE [units |-> 0, nd |-> 0]

\* Data row j of a store as text: the ints, the floats, and a text that is
\* no number in the timestamp, engine and query fields.
StoreRow(fieldnames, j) ==
    [c \in 1..Len(fieldnames) |->
        IF fieldnames[c] \in {"timestamp", "engine", "query_id"} THEN <<"x">>
        ELSE IF fieldnames[c] \in {"run_id", "n_runs", "total_rows_requested",
                                   "rows_inserted", "batch_size", "rows_in_table_after",
                                   "warmup_rows", "total_rows_per_run"}
        THEN IntText(j)
        ELSE FloatText(WrittenValue(fieldnames[c], j))]

\* Store p as the benchmark scripts leave it after n appended rows; absent
\* when n < 0.
StoreOf(p, n) ==
    IF n < 0 THEN NoFile
    ELSE [exists |-> TRUE,
          lines |-> <<ReportFieldnames(p)>>
                      \o [j \in 1..n |-> StoreRow(ReportFieldnames(p), j)]]

\* row[column_name]: the cell under the field name.
ColumnOf(fieldnames, f) == CHOOSE c \in 1..Len(fieldnames) : fieldnames[c] = f

\* load_column_from_csv(path, column_name): csv.DictReader takes the field
\* names from the first line and every later line is a row; the floats of
\* the column, or the exception raised (open: FileNotFoundError;
\* row[column_name]: KeyError; float: ValueError).
load_column_from_csv(file, column_name) ==
    LET names == IF file.lines = <<>> THEN <<>> ELSE file.lines[1]
        rows == SubSeq(file.lines, 2, Len(file.lines))
        has_column == \E c \in 1..Len(names) : names[c] = column_name
    IN  IF ~file.exists THEN [err |-> "FileNotFoundError", values |-> <<>>]
        ELSE IF rows = <<>> THEN [err |-> "", values |-> <<>>]
        ELSE IF ~has_column THEN [err |-> "KeyError", values |-> <<>>]
        ELSE IF \E j \in 1..Len(rows) : ~IsFloatText(rows[j][ColumnOf(names, column_name)])
        THEN [err |-> "ValueError", values |-> <<>>]
        ELSE [err |-> "",
              values |-> [j \in 1..Len(rows) |->
                             float(rows[j][ColumnOf(names, column_name)])]]

\* A loader that returns the column of the first row.
load_single_value_from_summary_firstRow(file, column_name) ==
    LET names == IF file.lines = <<>> THEN <<>> ELSE file.lines[1]
        rows == SubSeq(file.lines, 2, Len(file.lines))
        has_column == \E c \in 1..Len(names) : names[c] = column_name
    IN  IF ~file.exists THEN [err |-> "FileNotFoundError", value |-> <<>>]
        ELSE IF rows = <<>> THEN [err |-> "RuntimeError", value |-> <<>>]
        ELSE IF ~has_column THEN [err |-> "KeyError", value |-> <<>>]
        ELSE IF ~IsFloatText(rows[1][ColumnOf(names, column_name)])
        THEN [err |-> "ValueError", value |-> <<>>]
        ELSE [err |-> "", value |-> float(rows[1][ColumnOf(names, column_name)])]

\* load_single_value_from_summary(path, column_name): `if not rows: raise
\* RuntimeError`, else float(rows[-1][column_name]).
load_single_value_from_summary(file, column_name) ==
    LET names == IF file.lines = <<>> THEN <<>> ELSE file.lines[1]
        rows == SubSeq(file.lines, 2, Len(file.lines))
        has_column == \E c \in 1..Len(names) : names[c] = column_name
    IN  IF ~file.exists THEN [err |-> "FileNotFoundError", value |-> <<>>]
        ELSE IF rows = <<>> THEN [err |-> "RuntimeError", value |-> <<>>]
        ELSE IF ~has_column THEN [err |-> "KeyError", value |-> <<>>]
        ELSE IF ~IsFloatText(rows[Len(rows)][ColumnOf(names, column_name)])
        THEN [err |-> "ValueError", value |-> <<>>]
        ELSE [err |-> "", value |-> float(rows[Len(rows)][ColumnOf(names, column_name)])]

\* statistics.mean(xs) raises StatisticsError on an empty list (least = 1),
\* statistics.stdev(xs) on fewer than two values (least = 2).
StatisticsError(xs, least) == IF Len(xs) < least THEN "StatisticsError" ELSE ""

\* The exception of the first statement that raises, "" when none does.
FirstError(es) ==
    IF \A k \in 1..Len(es) : es[k] = "" THEN ""
    ELSE es[CHOOSE k \in 1..Len(es) : es[k] # "" /\ \A j \in 1..(k - 1) : es[j] = ""]

\* fieldnames = list(row_dict.keys()) of final_row.
FinalFieldnames ==
    <<"timestamp", "pg_insert_mean", "pg_insert_std", "mongo_insert_mean",
      "mongo_insert_std", "pg_agg_mean", "pg_agg_std", "mongo_agg_mean",
      "mongo_agg_std", "pg_driver_mean", "pg_driver_std", "mongo_driver_mean",
      "mongo_driver_std", "pg_table_mb", "pg_db_mb", "mongo_table_mb", "mongo_db_mb">>

\* The locals of main() before any is assigned.
NoValues ==
    [pg_insert_mean |-> [num |-> 0, den |-> 1], pg_insert_std |-> ZeroStd,
     mongo_insert_mean |-> [num |-> 0, den |-> 1], mongo_insert_std |-> ZeroStd,
     pg_agg_mean |-> [num |-> 0, den |-> 1], pg_agg_std |-> ZeroStd,
     mongo_agg_mean |-> [num |-> 0, den |-> 1], mongo_agg_std |-> ZeroStd,
     pg_driver_mean |-> [num |-> 0, den |-> 1], pg_driver_std |-> [num |-> 0, den |-> 1],
     mongo_driver_mean |-> [num |-> 0, den |-> 1],
     mongo_driver_std |-> [num |-> 0, den |-> 1],
     pg_table_mb |-> [num |-> 0, den |-> 1], pg_db_mb |-> [num |-> 0, den |-> 1],
     mongo_table_mb |-> [num |-> 0, den |-> 1], mongo_db_mb |-> [num |-> 0, den |-> 1]]

\* final_row of main().
final_row(timestamp, v) ==
    [timestamp |-> timestamp,
     pg_insert_mean |-> Round(v.pg_insert_mean, 2),
     pg_insert_std |-> RoundStd(v.pg_insert_std, 2),
     mongo_insert_mean |-> Round(v.mongo_insert_mean, 2),
     mongo_insert_std |-> RoundStd(v.mongo_insert_std, 2),
     pg_agg_mean |-> Round(v.pg_agg_mean, 2),
     pg_agg_std |-> RoundStd(v.pg_agg_std, 2),
     mongo_agg_mean |-> Round(v.mongo_agg_mean, 2),
     mongo_agg_std |-> RoundStd(v.mongo_agg_std, 2),
     pg_driver_mean |-> Round(v.pg_driver_mean, 4),
     pg_driver_std |-> Round(v.pg_driver_std, 4),
     mongo_driver_mean |-> Round(v.mongo_driver_mean, 4),
     mongo_driver_std |-> Round(v.mongo_driver_std, 4),
     pg_table_mb |-> Round(v.pg_table_mb, 2),
     pg_db_mb |-> Round(v.pg_db_mb, 2),
     mongo_table_mb |-> Round(v.mongo_table_mb, 2),
     mongo_db_mb |-> Round(v.mongo_db_mb, 2)]

\* append_final_summary(row_dict): file_exists is whether FINAL_STATS_CSV
\* could be opened for reading; the file is then opened for appending, the
\* header written when not file_exists, and the row.
append_final_summary(fs, row_dict) ==
    LET fieldnames == FinalFieldnames
        file_exists == fs[FILE_PATHS.FINAL_STATS_CSV].exists
    IN  [fs EXCEPT ![FILE_PATHS.FINAL_STATS_CSV] =
            [exists |-> TRUE,
             lines |-> @.lines
                         \o (IF ~file_exists THEN <<WriteHeader(fieldnames)>> ELSE <<>>)
                         \o <<WriteRow(fieldnames, row_dict)>>]]

\* An empty file.
EmptyFile == [exists |-> TRUE, lines |-> <<>>]

\* The stores main() finds: every store it reads with MaxStoreRows rows but
\* at most two of them, which hold fewer rows or are absent; the final store
\* absent, empty, or holding the row of an earlier report.
ReportStores ==
    {[r \in ReportPaths \cup {FILE_PATHS.FINAL_STATS_CSV} |->
         IF r = FILE_PATHS.FINAL_STATS_CSV THEN final
         ELSE StoreOf(r, IF r = p THEN a ELSE IF r = q THEN b ELSE MaxStoreRows)] :
       p \in ReportPaths, q \in ReportPaths,
       a \in (-1)..MaxStoreRows, b \in (-1)..MaxStoreRows,
       final \in {NoFile, EmptyFile,
                  append_final_summary([x \in {FILE_PATHS.FINAL_STATS_CSV} |-> NoFile],
                                       final_row(0, NoValues))[FILE_PATHS.FINAL_STATS_CSV]}}

\* main() after `timestamp = datetime.now(timezone.utc).isoformat()`.
ReportInit ==
    /\ MainIdle
    /\ loop = LoopIdle
    /\ sz = SizeIdle
    /\ ag = AgIdle
    /\ rep \in {[pc |-> "insert_stats", at |-> "", err |-> "", timestamp |-> Now,
                 files |-> fs, files0 |-> fs, v |-> NoValues] : fs \in ReportStores}

\* "1) INSERT THROUGHPUT STATS": both columns are loaded, then mean and
\* stdev of each.
ReportInsertStats ==
    /\ rep.pc = "insert_stats"
    /\ LET pg_insert == load_column_from_csv(rep.files[FILE_PATHS.POSTGRES_INSERT_RUNS],
                                             "rows_per_sec")
           mongo_insert == load_column_from_csv(rep.files[FILE_PATHS.MONGO_INSERT_RUNS],
                                                "rows_per_sec")
           e == FirstError(<<pg_insert.err, mongo_insert.err,
                             StatisticsError(pg_insert.values, 1),
                             StatisticsError(pg_insert.values, 2),
                             StatisticsError(mongo_insert.values, 1),
                             StatisticsError(mongo_insert.values, 2)>>)
       IN  rep' = IF e # ""
                  THEN [rep EXCEPT !.pc = "failed", !.at = "insert_stats", !.err = e]
                  ELSE [rep EXCEPT !.pc = "agg_stats",
                                   !.v.pg_insert_mean = Mean(pg_insert.values),
                                   !.v.pg_insert_std = Stdev(pg_insert.values),
                                   !.v.mongo_insert_mean = Mean(mongo_insert.values),
                                   !.v.mongo_insert_std = Stdev(mongo_insert.values)]
    /\ UNCHANGED <<loop, sz, ag>>
    /\ UNCHANGED mainVars

\* "2) AGGREGATION LATENCY STATS".
ReportAggStats ==
    /\ rep.pc = "agg_stats"
    /\ LET pg_agg == load_column_from_csv(rep.files[FILE_PATHS.POSTGRES_AGG_RUNS], "latency_ms")
           mongo_agg == load_column_from_csv(rep.files[FILE_PATHS.MONGO_AGG_RUNS], "latency_ms")
           e == FirstError(<<pg_agg.err, mongo_agg.err,
                             StatisticsError(pg_agg.values, 1),
                             StatisticsError(pg_agg.values, 2),
                             StatisticsError(mongo_agg.values, 1),
                             StatisticsError(mongo_agg.values, 2)>>)
       IN  rep' = IF e # ""
                  THEN [rep EXCEPT !.pc = "failed", !.at = "agg_stats", !.err = e]
                  ELSE [rep EXCEPT !.pc = "driver",
                                   !.v.pg_agg_mean = Mean(pg_agg.values),
                                   !.v.pg_agg_std = Stdev(pg_agg.values),
                                   !.v.mongo_agg_mean = Mean(mongo_agg.values),
                                   !.v.mongo_agg_std = Stdev(mongo_agg.values)]
    /\ UNCHANGED <<loop, sz, ag>>
    /\ UNCHANGED mainVars

\* "3) DRIVER OVERHEAD (ALREADY MEAN±STD)".
ReportDriver ==
    /\ rep.pc = "driver"
    /\ LET pg_driver_mean == load_single_value_from_summary(
                                 rep.files[FILE_PATHS.POSTGRES_DRIVER_SUMMARY], "mean_latency_ms")
           pg_driver_std == load_single_value_from_summary(
                                rep.files[FILE_PATHS.POSTGRES_DRIVER_SUMMARY], "std_latency_ms")
           mongo_driver_mean == load_single_value_from_summary(
                                    rep.files[FILE_PATHS.MONGO_DRIVER_SUMMARY], "mean_latency_ms")
           mongo_driver_std == load_single_value_from_summary(
                                   rep.files[FILE_PATHS.MONGO_DRIVER_SUMMARY], "std_latency_ms")
           e == FirstError(<<pg_driver_mean.err, pg_driver_std.err,
                             mongo_driver_mean.err, mongo_driver_std.err>>)
       IN  rep' = IF e # ""
                  THEN [rep EXCEPT !.pc = "failed", !.at = "driver", !.err = e]
                  ELSE [rep EXCEPT !.pc = "storage",
                                   !.v.pg_driver_mean = pg_driver_mean.value,
                                   !.v.pg_driver_std = pg_driver_std.value,
                                   !.v.mongo_driver_mean = mongo_driver_mean.value,
                                   !.v.mongo_driver_std = mongo_driver_std.value]
    /\ UNCHANGED <<loop, sz, ag>>
    /\ UNCHANGED mainVars

\* "4) STORAGE SIZE (MEAN ONLY)".
ReportStorage ==
    /\ rep.pc = "storage"
    /\ LET pg_table_mb == load_single_value_from_summary(
                              rep.files[FILE_PATHS.POSTGRES_INSERT_SUMMARY],
                              "mean_table_total_after_mb")
           pg_db_mb == load_single_value_from_summary(
                           rep.files[FILE_PATHS.POSTGRES_INSERT_SUMMARY], "mean_db_size_after_mb")
           mongo_table_mb == load_single_value_from_summary(
                                 rep.files[FILE_PATHS.MONGO_INSERT_SUMMARY],
                                 "mean_table_total_after_mb")
           mongo_db_mb == load_single_value_from_summary(
                              rep.files[FILE_PATHS.MONGO_INSERT_SUMMARY], "mean_db_size_after_mb")
           e == FirstError(<<pg_table_mb.err, pg_db_mb.err, mongo_table_mb.err,
                             mongo_db_mb.err>>)
       IN  rep' = IF e # ""
                  THEN [rep EXCEPT !.pc = "failed", !.at = "storage", !.err = e]
                  ELSE [rep EXCEPT !.pc = "save",
                                   !.v.pg_table_mb = pg_table_mb.value,
                                   !.v.pg_db_mb = pg_db_mb.value,
                                   !.v.mongo_table_mb = mongo_table_mb.value,
                                   !.v.mongo_db_mb = mongo_db_mb.value]
    /\ UNCHANGED <<loop, sz, ag>>
    /\ UNCHANGED mainVars

\* "SAVE TO FINAL CSV": final_row is built and appended, main() returns.
ReportSave ==
    /\ rep.pc = "save"
    /\ rep' = [rep EXCEPT !.pc = "done",
                          !.files = append_final_summary(
                                        rep.files, final_row(rep.timestamp, rep.v))]
    /\ UNCHANGED <<loop, sz, ag>>
    /\ UNCHANGED mainVars

ReportNext ==
    ReportInsertStats \/ ReportAggStats \/ ReportDriver \/ ReportStorage \/ ReportSave

SpecReport == ReportInit /\ [][ReportNext]_vars

(***************************************************************************)
(* The sink on its own: the append functions of every script, called in    *)
(* any order on stores that are absent or empty.                           *)
(***************************************************************************)

\* The most appends of one run of the sink.
MaxAppends == 3

\* The sink before any append: at most one store exists, empty, the others
\* are absent; log[p] collects, for each append to p, whether p existed
\* when the append was called.
SinkInit ==
    /\ MainIdle
    /\ loop = LoopIdle
    /\ sz = SizeIdle
    /\ ag = AgIdle
    /\ rep \in {[pc |-> "sink", n |-> 0,
                 files |-> [p \in AllPaths |-> IF p \in E THEN EmptyFile ELSE NoFile],
                 files0 |-> [p \in AllPaths |-> IF p \in E THEN EmptyFile ELSE NoFile],
                 log |-> [p \in AllPaths |-> <<>>]] :
                   E \in {{}} \cup {{p} : p \in AllPaths}}

\* append_run_to_csv(row_dict) of the aggregation or insertion script.
SinkAppendRun ==
    /\ rep.pc = "sink"
    /\ rep.n < MaxAppends
    /\ \E k \in {"aggregate", "insert"}, e \in Engines :
        LET p == RUN_CSV_PATH(k, e)
            id == Len(rep.log[p]) + 1
            row_dict == IF k = "aggregate"
                        THEN AggregateRunRow(e, id, LatencyMs(id))
                        ELSE InsertRunRow(e, id, NoIt)
        IN  rep' = [rep EXCEPT !.n = @ + 1,
                               !.files = append_run_to_csv(@, k, e, row_dict),
                               !.log[p] = Append(@, rep.files[p].exists)]
    /\ UNCHANGED <<loop, sz, ag>>
    /\ UNCHANGED mainVars

\* append_summary_to_csv(summary_dict) of any benchmark script.
SinkAppendSummary ==
    /\ rep.pc = "sink"
    /\ rep.n < MaxAppends
    /\ \E k \in Kinds, e \in Engines :
        LET p == SUMMARY_CSV_PATH(k, e)
            one_run ==
                [durations |-> <<NoIt.duration>>,
                 throughputs |-> <<RowsPerSec(NoIt.rows_inserted, NoIt.duration)>>,
                 db_sizes_after |-> <<bytes_to_mb(NoIt.sizes_after.db_bytes)>>,
                 table_sizes_after |->
                     <<bytes_to_mb(NoIt.sizes_after.table_total_bytes)>>]
            summary_dict == IF k = "insert"
                            THEN InsertSummaryRow(e, InsertStatistics(one_run))
                            ELSE LatencySummaryRow(k, e, LatencyMs(Len(rep.log[p]) + 1),
                                                   ZeroStd)
        IN  rep' = [rep EXCEPT !.n = @ + 1,
                               !.files = append_summary_to_csv(@, k, e, summary_dict),
                               !.log[p] = Append(@, rep.files[p].exists)]
    /\ UNCHANGED <<loop, sz, ag>>
    /\ UNCHANGED mainVars

\* append_final_summary(final_row) of stat_summary.py.
SinkAppendFinal ==
    /\ rep.pc = "sink"
    /\ rep.n < MaxAppends
    /\ rep' = [rep EXCEPT !.n = @ + 1,
                          !.files = append_final_summary(@, final_row(Now, NoValues)),
                          !.log[FILE_PATHS.FINAL_STATS_CSV] =
                              Append(@, rep.files[FILE_PATHS.FINAL_STATS_CSV].exists)]
    /\ UNCHANGED <<loop, sz, ag>>
    /\ UNCHANGED mainVars

SinkNext == SinkAppendRun \/ SinkAppendSummary \/ SinkAppendFinal

SpecSink == SinkInit /\ [][SinkNext]_vars

(***************************************************************************)
(* Properties of the benchmark scripts and of their result stores.         *)
(***************************************************************************)

LatencyKinds == {"aggregate", "driver"}

\* The warm-up executions of the operation a complete invocation makes: one
\* per warm-up iteration, or the one warm-up insertion when WARMUP_ROWS > 0.
WarmupCount ==
    IF kind = "insert" THEN (IF cfg.warmup_rows > 0 THEN 1 ELSE 0) ELSE warmup_runs

\* The per-run rows the running invocation has appended so far.
AppendedRuns ==
    IF kind = "insert" THEN Len(runs.durations)
    ELSE IF kind = "aggregate" THEN Len(latencies)
    ELSE 0

\* The summary rows the running invocation has appended so far.
AppendedSummaries == IF pc = "done" THEN 1 ELSE 0

\* The stores of the running invocation.
RunStore == RUN_CSV_PATH(kind, engine)

SummaryStore == SUMMARY_CSV_PATH(kind, engine)

\* The rows the running invocation has appended to store p.
AppendedTo(p) ==
    (IF p = RunStore THEN AppendedRuns ELSE 0)
        + (IF p = SummaryStore THEN AppendedSummaries ELSE 0)

IsPrefix(s, t) == Len(s) <= Len(t) /\ SubSeq(t, 1, Len(s)) = s

\* The field names of store p of the benchmark kind k.
FieldnamesOf(k, p) ==
    IF p \in {RUN_CSV_PATH(k, e) : e \in Engines} THEN RunFieldnames(k)
    ELSE SummaryFieldnames(k)

\* The header line of a store with the given field names.
HeaderLine(fieldnames) == [j \in 1..Len(fieldnames) |-> Cell(fieldnames[j])]

\* The position of field f in the lines of a store.
FieldIndex(fieldnames, f) == CHOOSE j \in 1..Len(fieldnames) : fieldnames[j] = f

\* The data lines of store p: all but the header.
DataLines(p) == SubSeq(files[p].lines, 2, Len(files[p].lines))

\* Store p holds a data row with the label of engine e.
HasLabel(p, e) ==
    \E j \in 1..Len(DataLines(p)) :
        DataLines(p)[j][FieldIndex(FieldnamesOf(kind, p), "engine")]
            = Cell(ENGINE_NAME(kind, e))

\* The stores the script of kind k for engine e writes.
StoresOf(k, e) == {RUN_CSV_PATH(k, e), SUMMARY_CSV_PATH(k, e)} \cap Paths

\* C3: when an aggregation or driver-overhead benchmark is at its statistics
\* step, it holds exactly N_RUNS observations, whatever the number of warm-up
\* iterations, and every observation was taken from a measured execution,
\* none from a warm-up one.
C3_ObservationsAreMeasured ==
    (kind \in LatencyKinds /\ pc = "stats") =>
        /\ Len(latencies) = n_runs
        /\ Len(src) = Len(latencies)
        /\ \A k \in 1..Len(src) :
            /\ src[k] \in 1..Len(calls)
            /\ src[k] > warmup_runs
            /\ calls[src[k]].phase = "measured"

C3_Witness ==
    /\ kind \in LatencyKinds
    /\ pc = "stats"
    /\ warmup_runs >= 1
    /\ Len(latencies) >= 2
    /\ Len(calls) = warmup_runs + Len(latencies)

\* C4: an invocation that has completed executed the operation exactly
\* warm-up count + N_RUNS times, each execution to its end before the next,
\* all the warm-up executions before the first measured one; the
\* observations the statistics are computed from are those of the measured
\* executions only, and the stores gained one row per measured execution and
\* one summary row, none for a warm-up execution.
C4_WarmupThenMeasured ==
    (pc = "done") =>
        /\ Len(calls) = WarmupCount + n_runs
        /\ \A k \in 1..Len(calls) :
            /\ calls[k].ok
            /\ calls[k].phase = (IF k <= WarmupCount THEN "warmup" ELSE "measured")
        /\ src = [k \in 1..n_runs |-> WarmupCount + k]
        /\ kind \in LatencyKinds =>
            /\ Len(latencies) = n_runs
            /\ stats = [mean |-> Mean(latencies), std |-> StdevOrZero(latencies)]
        /\ kind = "insert" =>
            /\ Len(runs.durations) = n_runs
            /\ stats = InsertStatistics(runs)
        /\ \A p \in Paths :
            Len(files[p].lines)
                = Len(files0[p].lines)
                    + (IF p = RunStore /\ kind # "driver" THEN n_runs ELSE 0)
                    + (IF p = SummaryStore THEN 1 ELSE 0)
                    + (IF files[p].exists /\ ~files0[p].exists THEN 1 ELSE 0)

C4_Witness ==
    /\ pc = "done"
    /\ kind \in LatencyKinds
    /\ warmup_runs >= 2
    /\ n_runs >= 2
    /\ Len(calls) = warmup_runs + n_runs

\* C5: an execution of the operation that fails, in the warm-up or in the
\* measured phase, is the last execution of its invocation; the failure has
\* left main() and the summary store holds what it held when the invocation
\* started.
C5_FailureEndsInvocation ==
    \A k \in 1..Len(calls) :
        ~calls[k].ok =>
            /\ k = Len(calls)
            /\ pc = "failed"
            /\ err # <<>>
            /\ files[SummaryStore] = files0[SummaryStore]

C5_Witness ==
    /\ pc = "failed"
    /\ Len(calls) >= 2
    /\ ~calls[Len(calls)].ok
    /\ calls[Len(calls)].phase = "measured"
    /\ calls[1].phase = "warmup"
    /\ files[SummaryStore] = files0[SummaryStore]
    /\ kind = "aggregate" /\ Len(files[RunStore].lines) > Len(files0[RunStore].lines)

\* C6: a store that did not exist when the invocation started and to which
\* K >= 1 rows were appended consists of the header line followed by K data
\* lines, no other header among them, in the order of the appends (the run
\* rows carry run_id 1, 2, ..., K).
C6_FreshStoreOneHeader ==
    \A p \in Paths :
        (~files0[p].exists /\ files[p].exists) =>
            LET fieldnames == FieldnamesOf(kind, p)
                K == AppendedTo(p)
            IN  /\ K >= 1
                /\ Len(files[p].lines) = 1 + K
                /\ files[p].lines[1] = HeaderLine(fieldnames)
                /\ \A j \in 1..K : DataLines(p)[j] # HeaderLine(fieldnames)
                /\ p = RunStore =>
                    \A j \in 1..K :
                        DataLines(p)[j][FieldIndex(fieldnames, "run_id")] = Cell(j)

C6_Witness ==
    /\ kind # "driver"
    /\ ~files0[RunStore].exists
    /\ AppendedRuns >= 2
    /\ Len(files[RunStore].lines) = 3

\* C7: a store that existed with M data rows when the invocation started
\* and to which K rows were appended holds M + K data rows, its header and
\* its first M rows as they were; this from invocation to invocation.
C7_AppendKeepsHistory ==
    \A p \in Paths :
        /\ IsPrefix(files0[p].lines, files[p].lines)
        /\ files0[p].exists =>
            /\ files[p].exists
            /\ Len(DataLines(p)) = (Len(files0[p].lines) - 1) + AppendedTo(p)
            /\ files[p].lines[1] = files0[p].lines[1]

C7_Witness ==
    /\ kind # "driver"
    /\ files0[RunStore].exists
    /\ Len(files0[RunStore].lines) >= 3
    /\ AppendedRuns >= 2
    /\ Len(files[RunStore].lines) = Len(files0[RunStore].lines) + AppendedRuns

\* C8 as stated: after two invocations of one benchmark kind, one for each
\* engine, one store holds rows of both engine labels.
C8_SharedStore ==
    (Len(inv) = 2 /\ inv[1] # inv[2] /\ pc = "done") =>
        \E p \in Paths : HasLabel(p, "postgres") /\ HasLabel(p, "mongo")

\* C8 amended: each engine's script appends to its own stores only: every
\* data row of an engine's store carries that engine's label, no store holds
\* rows of both labels, and an invocation leaves the other engine's stores
\* as they were.
C8_PerEngineStores ==
    /\ \A e \in Engines : \A p \in StoresOf(kind, e) :
        \A j \in 1..Len(DataLines(p)) :
            DataLines(p)[j][FieldIndex(FieldnamesOf(kind, p), "engine")]
                = Cell(ENGINE_NAME(kind, e))
    /\ \A p \in Paths : ~(HasLabel(p, "postgres") /\ HasLabel(p, "mongo"))
    /\ \A e \in Engines \ {engine} : \A p \in StoresOf(kind, e) :
        files[p] = files0[p]

C8_Witness ==
    /\ Len(inv) = 2
    /\ inv[1] # inv[2]
    /\ pc = "done"
    /\ \A e \in Engines : \A p \in StoresOf(kind, e) : Len(DataLines(p)) >= 1
    /\ StoresOf(kind, "postgres") \cap StoresOf(kind, "mongo") = {}

\* The observations the running invocation has collected.
ObsCount == IF kind = "insert" THEN Len(runs.durations) ELSE Len(latencies)

\* The invocation is past its statistics step.
PastStats == pc \in {"summary", "ins_summary", "done"}

\* C11: with at most one observation (one, or none when N_RUNS is 0) the
\* statistics step does not raise, and every standard deviation it produces
\* is exactly 0.0.
C11_ShortSequenceStdZero ==
    ObsCount <= 1 =>
        /\ err # <<"StatisticsError">>
        /\ PastStats =>
            IF kind = "insert"
            THEN /\ stats.std_duration = ZeroStd
                 /\ stats.std_throughput = ZeroStd
                 /\ stats.std_db_after = ZeroStd
                 /\ stats.std_table_after = ZeroStd
            ELSE stats.std = ZeroStd

\* C12: whenever main() has been left, by returning or by an exception, a
\* connection that was opened has been closed.
C12_ConnectionReleased ==
    (pc \in {"done", "failed"} /\ conn # "none") => conn = "closed"

\* The lines of store p appended by the running invocation.
NewLines(p) ==
    SubSeq(files[p].lines,
           (IF files0[p].exists THEN Len(files0[p].lines) ELSE 1) + 1,
           Len(files[p].lines))

\* C13: in the insertion benchmark every measured run, the first one after
\* the warm-up included, takes its size-before snapshot and starts inserting
\* on a dataset that is empty and whose clear is durable; the row count
\* recorded for a run is the number of rows that run inserted.
C13_ClearedBeforeEachRun ==
    kind = "insert" =>
        /\ pc \in {"ins_sizes_before", "ins_insert"} => db = EmptyDb
        /\ pc \in {"ins_insert", "ins_commit", "ins_sizes_after", "ins_record"} =>
            it.sizes_before = SizesOf(engine, EmptyDb)
        /\ pc = "ins_record" =>
            /\ it.rows_in_table_after = it.rows_inserted
            /\ db.rows = it.rows_inserted
        /\ \A j \in 1..Len(NewLines(RunStore)) :
            NewLines(RunStore)[j][FieldIndex(RunFieldnames(kind), "rows_in_table_after")]
                = NewLines(RunStore)[j][FieldIndex(RunFieldnames(kind), "rows_inserted")]

C13_Witness ==
    /\ kind = "insert"
    /\ pc = "ins_record"
    /\ run_id = 2
    /\ cfg.warmup_rows > 0
    /\ it.rows_inserted > 0
    /\ it.rows_in_table_after = it.rows_inserted
    /\ Len(NewLines(RunStore)) = 1

\* The number of times event ev appears in the trace.
CountOf(ev) == Cardinality({k \in 1..Len(trace) : trace[k] = ev})

\* C14: in the insertion benchmark the payload is created before anything
\* else; the start instant of a measured run is read right after the
\* size-before snapshot, which follows the (committed) clear; between the
\* start and the end instant only batches are issued; the end instant is read
\* before the commit, the size-after snapshot and the row count; a completed
\* invocation has read one interval per measured run (and one for the
\* warm-up insertion).
C14_TimedIntervalIsTheLoop ==
    kind = "insert" =>
        /\ trace # <<>> => trace[1] = "load_image"
        /\ \A k \in 1..Len(trace) :
            /\ trace[k] = "load_image" => k = 1
            /\ trace[k] = "sizes_before" =>
                /\ k > 1 /\ trace[k - 1] \in {"commit", "delete_many"}
                /\ k < Len(trace) => trace[k + 1] = "t0"
            /\ trace[k] = "t0" =>
                (k < Len(trace) => trace[k + 1] \in {"batch", "t1"})
            /\ trace[k] = "batch" =>
                /\ k > 1 /\ trace[k - 1] \in {"t0", "batch"}
                /\ k < Len(trace) => trace[k + 1] \in {"batch", "t1"}
            /\ trace[k] = "t1" =>
                /\ k > 1 /\ trace[k - 1] \in {"t0", "batch"}
                /\ k < Len(trace) =>
                    trace[k + 1] \in {"commit", "sizes_after", "delete_many"}
            /\ trace[k] = "sizes_after" =>
                /\ k > 2
                /\ \/ trace[k - 1] = "t1"
                   \/ trace[k - 1] = "commit" /\ trace[k - 2] = "t1"
                /\ k < Len(trace) => trace[k + 1] = "row_count"
        /\ pc = "done" =>
            /\ CountOf("sizes_before") = n_runs
            /\ CountOf("sizes_after") = n_runs
            /\ CountOf("t0") = WarmupCount + n_runs
            /\ CountOf("t1") = WarmupCount + n_runs

C14_Witness ==
    /\ kind = "insert"
    /\ pc = "done"
    /\ n_runs = 2
    /\ cfg.warmup_rows > 0
    /\ engine = "postgres"
    /\ CountOf("t1") = 3
    /\ CountOf("batch") >= 3

\* C15: an insertion or aggregation invocation has appended to its per-run
\* store one row per measured iteration made so far, numbered 1, 2, ... in
\* that order; its summary store gains a row only when all N_RUNS per-run
\* rows are there, and a completed invocation has appended exactly N_RUNS
\* per-run rows and exactly one summary row.
C15_RunRowsThenSummary ==
    kind \in {"aggregate", "insert"} =>
        /\ Len(NewLines(RunStore)) = AppendedRuns
        /\ \A j \in 1..Len(NewLines(RunStore)) :
            NewLines(RunStore)[j][FieldIndex(RunFieldnames(kind), "run_id")] = Cell(j)
        /\ Len(NewLines(SummaryStore)) \in {0, 1}
        /\ Len(NewLines(SummaryStore)) = 1 =>
            /\ pc = "done"
            /\ Len(NewLines(RunStore)) = n_runs
        /\ pc = "done" =>
            /\ Len(NewLines(RunStore)) = n_runs
            /\ Len(NewLines(SummaryStore)) = 1

C15_Witness ==
    /\ kind \in {"aggregate", "insert"}
    /\ pc = "done"
    /\ n_runs = 2
    /\ files0[RunStore].exists
    /\ Len(NewLines(RunStore)) = 2
    /\ Len(NewLines(SummaryStore)) = 1

\* The schema listed for the store of benchmark kind k and granularity g.
ListedSchema(k, g) ==
    IF k = "insert" /\ g = "runs"
    THEN <<"timestamp", "run_id", "engine", "total_rows_requested", "rows_inserted",
           "batch_size", "duration_sec", "rows_per_sec", "db_size_before_mb",
           "db_size_after_mb", "table_total_before_mb", "table_total_after_mb",
           "table_data_before_mb", "table_data_after_mb", "table_index_before_mb",
           "table_index_after_mb", "rows_in_table_after">>
    ELSE IF k = "insert"
    THEN <<"timestamp", "engine", "warmup_rows", "total_rows_per_run", "batch_size",
           "n_runs", "mean_duration_sec", "std_duration_sec", "mean_rows_per_sec",
           "std_rows_per_sec", "mean_db_size_after_mb", "std_db_size_after_mb",
           "mean_table_total_after_mb", "std_table_total_after_mb">>
    ELSE IF g = "runs"
    THEN <<"timestamp", "engine", "query_id", "run_id", "latency_ms">>
    ELSE <<"timestamp", "engine", "query_id", "mean_latency_ms", "std_latency_ms",
           "n_runs">>

\* The granularity of store p of benchmark kind k.
GranularityOf(k, p) ==
    IF p \in {RUN_CSV_PATH(k, e) : e \in Engines} THEN "runs" ELSE "summary"

\* C18: the field names of every store kind are, in that order, the listed
\* schema in the scripts of both engines; every store that exists starts
\* with that header, and every row appended to it, in whatever invocation,
\* has one cell per column with the engine label in the engine column.
C18_FixedSchema ==
    kind \in Kinds =>
        \A e \in Engines :
            /\ kind # "driver" => ScriptRunFieldnames(kind, e) = ListedSchema(kind, "runs")
            /\ ScriptSummaryFieldnames(kind, e) = ListedSchema(kind, "summary")
            /\ \A p \in StoresOf(kind, e) :
                files[p].exists =>
                    LET schema == ListedSchema(kind, GranularityOf(kind, p))
                        header == HeaderLine(schema)
                        column == FieldIndex(schema, "engine")
                        label == Cell(ENGINE_NAME(kind, e))
                    IN  /\ files[p].lines[1] = header
                        /\ \A j \in 2..Len(files[p].lines) :
                            /\ Len(files[p].lines[j]) = Len(schema)
                            /\ files[p].lines[j][column] = label
                            /\ files[p].lines[j] # header

C18_Witness ==
    /\ kind = "insert"
    /\ Len(inv) = 2
    /\ inv[1] # inv[2]
    /\ pc = "done"
    /\ \A e \in Engines : \A p \in StoresOf(kind, e) :
        /\ files[p].exists
        /\ Len(DataLines(p)) >= 1

\* The cell of field f in the last line of store p.
LastCell(p, f) ==
    files[p].lines[Len(files[p].lines)][FieldIndex(FieldnamesOf(kind, p), f)]

\* The last measured insertion run has been recorded and no other started.
RunRecorded == kind = "insert" /\ pc = "ins_measure" /\ run_id > 1

\* The size fields of the last insert-runs row and of the insert-summary row
\* are the sizes rounded to nd decimals.
SizesWrittenAt(nd) ==
    /\ RunRecorded =>
        /\ LastCell(RunStore, "db_size_before_mb")
             = Cell(Round(bytes_to_mb(it.sizes_before.db_bytes), nd))
        /\ LastCell(RunStore, "db_size_after_mb")
             = Cell(Round(bytes_to_mb(it.sizes_after.db_bytes), nd))
        /\ LastCell(RunStore, "table_total_before_mb")
             = Cell(Round(bytes_to_mb(it.sizes_before.table_total_bytes), nd))
        /\ LastCell(RunStore, "table_total_after_mb")
             = Cell(Round(bytes_to_mb(it.sizes_after.table_total_bytes), nd))
        /\ LastCell(RunStore, "table_data_before_mb")
             = Cell(Round(bytes_to_mb(it.sizes_before.table_data_bytes), nd))
        /\ LastCell(RunStore, "table_data_after_mb")
             = Cell(Round(bytes_to_mb(it.sizes_after.table_data_bytes), nd))
        /\ LastCell(RunStore, "table_index_before_mb")
             = Cell(Round(bytes_to_mb(it.sizes_before.table_index_bytes), nd))
        /\ LastCell(RunStore, "table_index_after_mb")
             = Cell(Round(bytes_to_mb(it.sizes_after.table_index_bytes), nd))
    /\ (kind = "insert" /\ pc = "done") =>
        /\ LastCell(SummaryStore, "mean_db_size_after_mb")
             = Cell(Round(Mean(runs.db_sizes_after), nd))
        /\ LastCell(SummaryStore, "std_db_size_after_mb")
             = Cell(RoundStd(StdevOrZero(runs.db_sizes_after), nd))
        /\ LastCell(SummaryStore, "mean_table_total_after_mb")
             = Cell(Round(Mean(runs.table_sizes_after), nd))
        /\ LastCell(SummaryStore, "std_table_total_after_mb")
             = Cell(RoundStd(StdevOrZero(runs.table_sizes_after), nd))

\* The duration fields of the last insert-runs row and of the insert-summary
\* row are the durations rounded to nd decimals.
DurationsWrittenAt(nd) ==
    /\ RunRecorded =>
        LastCell(RunStore, "duration_sec") = Cell(Round(it.duration, nd))
    /\ (kind = "insert" /\ pc = "done") =>
        /\ LastCell(SummaryStore, "mean_duration_sec")
             = Cell(Round(Mean(runs.durations), nd))
        /\ LastCell(SummaryStore, "std_duration_sec")
             = Cell(RoundStd(StdevOrZero(runs.durations), nd))

\* The latency fields of the driver-overhead summary row are the latencies
\* rounded to nd decimals.
DriverLatenciesWrittenAt(nd) ==
    (kind = "driver" /\ pc = "done") =>
        /\ LastCell(SummaryStore, "mean_latency_ms") = Cell(Round(Mean(latencies), nd))
        /\ LastCell(SummaryStore, "std_latency_ms")
             = Cell(RoundStd(StdevOrZero(latencies), nd))

\* C19 as stated: the sizes and the durations of the insert-runs and
\* insert-summary stores are written rounded to 3 decimals, the driver
\* overhead latencies to more.
C19_ThreeDecimals ==
    /\ SizesWrittenAt(3)
    /\ DurationsWrittenAt(3)
    /\ \E nd \in 4..6 : DriverLatenciesWrittenAt(nd)

\* C19 amended: at write time the sizes are rounded to 3 decimals, the
\* durations to 4 and the throughputs to 2 (the statistics being computed
\* from the unrounded values); the driver overhead latencies are written
\* rounded to 6 decimals.
C19_WriteTimeRounding ==
    /\ SizesWrittenAt(3)
    /\ DurationsWrittenAt(4)
    /\ RunRecorded =>
        LastCell(RunStore, "rows_per_sec")
            = Cell(Round(RowsPerSec(it.rows_inserted, it.duration), 2))
    /\ (kind = "insert" /\ pc = "done") =>
        /\ LastCell(SummaryStore, "mean_rows_per_sec")
             = Cell(Round(Mean(runs.throughputs), 2))
        /\ LastCell(SummaryStore, "std_rows_per_sec")
             = Cell(RoundStd(StdevOrZero(runs.throughputs), 2))
    /\ DriverLatenciesWrittenAt(6)

C19_Witness ==
    /\ kind = "insert"
    /\ pc = "done"
    /\ n_runs = 2
    /\ Round(Mean(runs.durations), 4) # Round(Mean(runs.durations), 3)
    /\ LastCell(SummaryStore, "mean_duration_sec") = Cell(Round(Mean(runs.durations), 4))
    /\ Round(Mean(runs.db_sizes_after), 3).units > 0

\* C20: when the operation fails in measured iteration k, the exception
\* that leaves main() names k.
C20_FailureNamesIteration ==
    (pc = "failed" /\ calls # <<>> /\ ~calls[Len(calls)].ok
        /\ calls[Len(calls)].phase = "measured") =>
        \E t \in 1..Len(err) : err[t] = ToString(run_id)

\* C21: when the image is missing, the insertion benchmark is left with the
\* error before anything else was done: no connection was opened, the
\* dataset was neither cleared nor written, the operation was never
\* executed and every result store is as it was.
C21_MissingImageAbortsFirst ==
    err = <<"FileNotFoundError">> =>
        /\ kind = "insert"
        /\ pc = "failed"
        /\ conn = "none"
        /\ trace = <<>>
        /\ calls = <<>>
        /\ db.rows = db.committed
        /\ runs = NoRuns
        /\ files = files0

C21_Witness ==
    /\ err = <<"FileNotFoundError">>
    /\ pc = "failed"
    /\ db.rows > 0
    /\ Len(inv) = 2
    /\ \E p \in Paths : files[p].exists

C26_DegenerateBatches ==
    /\ (loop.pc # "idle" /\ loop.total_rows <= 0) =>
           (loop.issued = <<>> /\ loop.inserted = 0 /\ loop.batch = 0)
    /\ (loop.pc # "idle" /\ loop.batch_size <= 0) =>
           /\ \A j \in 1..Len(loop.issued) : loop.issued[j] = 1
           /\ loop.inserted = Len(loop.issued)
           /\ loop.pc = "done" =>
                loop.inserted = (IF loop.total_rows > 0 THEN loop.total_rows ELSE 0)

\* C26: whatever integers count and batch_size are, the loop returns (every
\* engine batch call returning); for count <= 0 it issues no batch and
\* returns 0, and for batch_size <= 0 its batches hold one record each.
C26_LoopTerminates ==
    /\ <>(loop.pc = "done")
    /\ []C26_DegenerateBatches

C26_Witness ==
    /\ loop.pc = "done"
    /\ loop.total_rows = MaxRows
    /\ loop.batch_size = -1
    /\ Len(loop.issued) = MaxRows
    /\ loop.inserted = MaxRows

\* A value as it was rounded for a store, as a number again.
AsWritten(x, nd) ==
    LET r == Round(x, nd) IN [num |-> r.units, den |-> Pow10(r.nd)]

\* The observations as they were rounded for the per-run store.
RoundedObservations(xs, nd) == [j \in 1..Len(xs) |-> AsWritten(xs[j], nd)]

\* C23: the observations main() holds are the clock differences themselves
\* (ticks of 1/10000), not the values rounded for the per-run store; the
\* per-run row is rounded when it is built, and the summary row holds the
\* rounded mean and standard deviation of the unrounded observations.  The
\* same for the lists of the insertion benchmark: durations, throughputs
\* and sizes in MB are kept unrounded and aggregated unrounded.
C23_SummaryFromUnrounded ==
    /\ kind \in LatencyKinds =>
        /\ \A j \in 1..Len(latencies) :
             latencies[j].den = 10000 /\ latencies[j].num \in Durations
        /\ (kind = "aggregate" /\ pc = "measure" /\ run_id > 1) =>
             LastCell(RunStore, "latency_ms") = Cell(Round(latencies[run_id - 1], 3))
        /\ pc \in {"summary", "done"} =>
             stats = [mean |-> Mean(latencies), std |-> StdevOrZero(latencies)]
        /\ pc = "done" =>
             /\ LastCell(SummaryStore, "mean_latency_ms")
                  = Cell(Round(Mean(latencies), SummaryDecimals(kind)))
             /\ LastCell(SummaryStore, "std_latency_ms")
                  = Cell(RoundStd(StdevOrZero(latencies), SummaryDecimals(kind)))
    /\ kind = "insert" =>
        /\ \A j \in 1..Len(runs.durations) :
             /\ runs.durations[j].den = 10000
             /\ runs.durations[j].num \in InsertDurations
             /\ runs.db_sizes_after[j].den = 1024 * 1024
             /\ runs.table_sizes_after[j].den = 1024 * 1024
        /\ RunRecorded =>
             /\ runs.durations[run_id - 1] = it.duration
             /\ runs.throughputs[run_id - 1] = RowsPerSec(it.rows_inserted, it.duration)
             /\ runs.db_sizes_after[run_id - 1] = bytes_to_mb(it.sizes_after.db_bytes)
             /\ runs.table_sizes_after[run_id - 1]
                  = bytes_to_mb(it.sizes_after.table_total_bytes)
             /\ LastCell(RunStore, "db_size_after_mb")
                  = Cell(Round(runs.db_sizes_after[run_id - 1], 3))
        /\ pc = "done" =>
             /\ LastCell(SummaryStore, "mean_db_size_after_mb")
                  = Cell(Round(Mean(runs.db_sizes_after), 3))
             /\ LastCell(SummaryStore, "mean_table_total_after_mb")
                  = Cell(Round(Mean(runs.table_sizes_after), 3))
             /\ LastCell(SummaryStore, "mean_rows_per_sec")
                  = Cell(Round(Mean(runs.throughputs), 2))
             /\ LastCell(SummaryStore, "std_duration_sec")
                  = Cell(RoundStd(StdevOrZero(runs.durations), 4))

\* Two observations whose mean, taken from the values rounded for the
\* per-run store, would have been written differently.
C23_Witness ==
    /\ kind = "aggregate"
    /\ pc = "done"
    /\ Len(latencies) = 2
    /\ Round(Mean(RoundedObservations(latencies, 3)), 3) # Round(Mean(latencies), 3)
    /\ LastCell(SummaryStore, "mean_latency_ms") = Cell(Round(Mean(latencies), 3))

\* C28: in the relational insertion benchmark a commit is issued only right
\* after an end instant or a TRUNCATE, never between a start instant and its
\* end instant; the size-after snapshot directly follows the commit that
\* follows the end instant, and the row count follows the snapshot; so both
\* read the committed rows of the run.
C28_CommitAfterTimedInterval ==
    (kind = "insert" /\ engine = "postgres") =>
        /\ \A k \in 1..Len(trace) :
            /\ trace[k] = "commit" =>
                /\ k > 1
                /\ trace[k - 1] \in {"t1", "truncate"}
            /\ trace[k] \in {"t0", "batch"} =>
                (k < Len(trace) => trace[k + 1] # "commit")
            /\ trace[k] = "sizes_after" =>
                /\ k > 2
                /\ trace[k - 1] = "commit"
                /\ trace[k - 2] = "t1"
            /\ trace[k] = "row_count" =>
                /\ k > 3
                /\ trace[k - 1] = "sizes_after"
        /\ pc = "ins_commit" =>
            /\ trace[Len(trace)] = "t1"
            /\ it.duration.num \in InsertDurations
            /\ db.committed = 0
        /\ pc \in {"ins_sizes_after", "ins_record"} =>
            /\ db.committed = db.rows
            /\ db.committed = it.rows_inserted
        /\ pc = "ins_record" =>
            /\ it.rows_in_table_after = db.committed
            /\ it.sizes_after = SizesOf(engine, db)

C28_Witness ==
    /\ kind = "insert"
    /\ engine = "postgres"
    /\ pc = "ins_record"
    /\ run_id = 2
    /\ db.committed > 0
    /\ Len(trace) > 4
    /\ SubSeq(trace, Len(trace) - 4, Len(trace))
         = <<"batch", "t1", "commit", "sizes_after", "row_count">>

\* The operation has just failed in a measured iteration of the aggregation
\* or insertion benchmark.
MeasuredOperationFailed ==
    /\ kind \in {"aggregate", "insert"}
    /\ pc = "failed"
    /\ calls # <<>>
    /\ ~calls[Len(calls)].ok
    /\ calls[Len(calls)].phase = "measured"

\* C29: when the operation fails in measured iteration k, the per-run store
\* holds what it held when the invocation started plus (after the header of
\* a store that was absent) the k-1 rows of iterations 1..k-1 in order, and
\* the summary store and every other store are as they were.
C29_FailedRunKeepsEarlierRows ==
    MeasuredOperationFailed =>
        /\ run_id \in 1..n_runs
        /\ IsPrefix(files0[RunStore].lines, files[RunStore].lines)
        /\ files[RunStore].exists = (files0[RunStore].exists \/ run_id > 1)
        /\ Len(files[RunStore].lines)
             = Len(files0[RunStore].lines)
                 + (IF ~files0[RunStore].exists /\ run_id > 1 THEN 1 ELSE 0)
                 + (run_id - 1)
        /\ \A j \in 1..(run_id - 1) :
             files[RunStore].lines[Len(files[RunStore].lines) - (run_id - 1) + j]
                     [FieldIndex(RunFieldnames(kind), "run_id")] = Cell(j)
        /\ \A p \in Paths \ {RunStore} : files[p] = files0[p]

C29_Witness ==
    /\ MeasuredOperationFailed
    /\ run_id = 2
    /\ n_runs = 2
    /\ files0[RunStore].exists
    /\ Len(files[RunStore].lines) = Len(files0[RunStore].lines) + 1
    /\ files[SummaryStore] = files0[SummaryStore]
    /\ files[SummaryStore].exists

\* The reads of load_single_value_from_summary in main(), in order: the
\* section, the store, the column and the local the value goes to.
SummaryReads ==
    <<[at |-> "driver", path |-> FILE_PATHS.POSTGRES_DRIVER_SUMMARY,
       column |-> "mean_latency_ms", into |-> "pg_driver_mean"],
      [at |-> "driver", path |-> FILE_PATHS.POSTGRES_DRIVER_SUMMARY,
       column |-> "std_latency_ms", into |-> "pg_driver_std"],
      [at |-> "driver", path |-> FILE_PATHS.MONGO_DRIVER_SUMMARY,
       column |-> "mean_latency_ms", into |-> "mongo_driver_mean"],
      [at |-> "driver", path |-> FILE_PATHS.MONGO_DRIVER_SUMMARY,
       column |-> "std_latency_ms", into |-> "mongo_driver_std"],
      [at |-> "storage", path |-> FILE_PATHS.POSTGRES_INSERT_SUMMARY,
       column |-> "mean_table_total_after_mb", into |-> "pg_table_mb"],
      [at |-> "storage", path |-> FILE_PATHS.POSTGRES_INSERT_SUMMARY,
       column |-> "mean_db_size_after_mb", into |-> "pg_db_mb"],
      [at |-> "storage", path |-> FILE_PATHS.MONGO_INSERT_SUMMARY,
       column |-> "mean_table_total_after_mb", into |-> "mongo_table_mb"],
      [at |-> "storage", path |-> FILE_PATHS.MONGO_INSERT_SUMMARY,
       column |-> "mean_db_size_after_mb", into |-> "mongo_db_mb"]>>

\* Section `at` of main() has been passed.
ReportPassed(at) ==
    \/ rep.pc \in {"save", "done"}
    \/ rep.pc = "storage" /\ at = "driver"

\* Section `at` of main() has been entered and is over.
ReportEntered(at) ==
    \/ ReportPassed(at)
    \/ rep.pc = "failed" /\ rep.at = at

\* The cell of the data row numbered j of store p under the field `column`,
\* as a number.
WrittenIn(p, j, column) ==
    float(rep.files[p].lines[j + 1][ColumnOf(ReportFieldnames(p), column)])

\* C22: a value read from a summary store is the one its last data row
\* holds under the requested column, whenever the store has a data row; a
\* read of a store that holds its header and no data row raises RuntimeError
\* (unless an earlier read of the same section has already failed on a store
\* that is absent); and when main() is left by an exception every store is
\* as it was when main() started.
C22_ConsumerReadsLastRow ==
    /\ \A k \in 1..Len(SummaryReads) :
        LET r == SummaryReads[k]
            f == rep.files[r.path]
        IN  /\ ReportPassed(r.at) =>
                /\ Len(f.lines) >= 2
                /\ rep.v[r.into] = WrittenIn(r.path, Len(f.lines) - 1, r.column)
            /\ (ReportEntered(r.at) /\ f.exists /\ Len(f.lines) = 1) =>
                /\ rep.pc = "failed"
                /\ rep.at = r.at
                /\ (\A j \in 1..(k - 1) :
                      SummaryReads[j].at = r.at => rep.files[SummaryReads[j].path].exists)
                   => rep.err = "RuntimeError"
    /\ rep.err = "RuntimeError" =>
        /\ rep.pc = "failed"
        /\ \E k \in 1..Len(SummaryReads) :
            /\ SummaryReads[k].at = rep.at
            /\ Len(rep.files[SummaryReads[k].path].lines) <= 1
    /\ rep.pc = "failed" => rep.files = rep.files0

C22_Witness ==
    /\ rep.pc = "done"
    /\ Len(rep.files[FILE_PATHS.POSTGRES_DRIVER_SUMMARY].lines) = 1 + MaxStoreRows
    /\ rep.v.pg_driver_mean
         = WrittenIn(FILE_PATHS.POSTGRES_DRIVER_SUMMARY, MaxStoreRows, "mean_latency_ms")
    /\ rep.v.pg_driver_mean # WrittenIn(FILE_PATHS.POSTGRES_DRIVER_SUMMARY, 1, "mean_latency_ms")
    /\ rep.v.pg_driver_std
         # WrittenIn(FILE_PATHS.POSTGRES_DRIVER_SUMMARY, MaxStoreRows, "mean_latency_ms")
    /\ Round(rep.v.pg_driver_mean, 2)
         = WrittenValue("mean_latency_ms", MaxStoreRows)

\* The per-run columns main() aggregates: the section, the store and the
\* local the standard deviation goes to.
ColumnReads ==
    <<[at |-> "insert_stats", path |-> FILE_PATHS.POSTGRES_INSERT_RUNS, into |-> "pg_insert_std"],
      [at |-> "insert_stats", path |-> FILE_PATHS.MONGO_INSERT_RUNS, into |-> "mongo_insert_std"],
      [at |-> "agg_stats", path |-> FILE_PATHS.POSTGRES_AGG_RUNS, into |-> "pg_agg_std"],
      [at |-> "agg_stats", path |-> FILE_PATHS.MONGO_AGG_RUNS, into |-> "mongo_agg_std"]>>

\* Every store main() reads but p holds at least two data rows.
OthersComplete(p) ==
    \A q \in ReportPaths \ {p} : Len(rep.files[q].lines) >= 3

\* C24: when one per-run column holds exactly one observation (every other
\* store holding two rows or more), main() is not left by an exception and,
\* once the section of that column is passed, its standard deviation is 0.0.
C24_SingleObservationStdZero ==
    \A k \in 1..Len(ColumnReads) :
        LET r == ColumnReads[k]
        IN  (Len(rep.files[r.path].lines) = 2 /\ OthersComplete(r.path)) =>
                /\ rep.pc # "failed"
                /\ rep.pc \in {"driver", "storage", "save", "done"} =>
                     rep.v[r.into] = ZeroStd

\* The field names store p is written with.
FieldnamesAt(p) ==
    IF p = FILE_PATHS.FINAL_STATS_CSV THEN FinalFieldnames
    ELSE FieldnamesOf(CHOOSE k \in Kinds :
                          p \in {RUN_CSV_PATH(k, e) : e \in Engines}
                                  \cup {SUMMARY_CSV_PATH(k, e) : e \in Engines},
                      p)

\* The positions of the header lines of store p.
HeaderPositions(p) ==
    {j \in 1..Len(rep.files[p].lines) :
        rep.files[p].lines[j] = HeaderLine(FieldnamesAt(p))}

\* C27: an append writes a header line exactly when the store is absent at
\* the call, which only the first append to a store that did not exist can
\* find; so a store holds one header, as its first line, when it was absent
\* before its first append, and holds data rows and no header when it
\* existed, empty, before its first append.
C27_HeaderIffAbsent ==
    rep.pc = "sink" =>
        \A p \in AllPaths :
            LET f == rep.files[p]
                lg == rep.log[p]
            IN  /\ \A a \in 1..Len(lg) : lg[a] = (a > 1 \/ rep.files0[p].exists)
                /\ Len(f.lines) = Len(lg) + Cardinality({a \in 1..Len(lg) : ~lg[a]})
                /\ HeaderPositions(p) = (IF lg # <<>> /\ ~lg[1] THEN {1} ELSE {})
                /\ Cardinality(HeaderPositions(p)) <= 1
                /\ (rep.files0[p].exists /\ lg # <<>>) =>
                    /\ HeaderPositions(p) = {}
                    /\ Len(f.lines) = Len(lg)
                /\ f.exists = (rep.files0[p].exists \/ lg # <<>>)

C27_Witness ==
    /\ rep.pc = "sink"
    /\ \E p \in AllPaths, q \in AllPaths :
        /\ rep.files0[p].exists
        /\ Len(rep.log[p]) = 2
        /\ Len(rep.files[p].lines) = 2
        /\ HeaderPositions(p) = {}
        /\ ~rep.files0[q].exists
        /\ Len(rep.log[q]) = 1
        /\ Len(rep.files[q].lines) = 2
        /\ HeaderPositions(q) = {1}

====
